---------------------------- MODULE Spec2Model ----------------------------
(***************************************************************************)
(* chatworthy content script: the floating export panel, the selection     *)
(* range expansion of buildSelectedPayload and the reconciliation loop     *)
(* (MutationObserver, scheduleEnsure, repair timer).                       *)
(*                                                                         *)
(* The page is single threaded.  Every action below is one event-loop task *)
(* (a click handler, a timer or frame callback, a script of the host       *)
(* page).  A MutationObserver callback is a microtask: it runs after the   *)
(* task that queued the records and before any other task, so every       *)
(* action but ObserverCallback waits for the record queue to be empty.     *)
(***************************************************************************)
EXTENDS Integers, Sequences, FiniteSets, TLC

(***************************************************************************)
(* Bounds of the model.                                                    *)
(***************************************************************************)
MaxTurns == 4        \* turns in the conversation, selection environment
MaxLoopTurns == 2    \* turns in the conversation, loop environment
MaxBootTurns == 1    \* turns in the conversation, session environment
MaxNodes == 2        \* elements in the classifier's document
MaxDedupTurns == 4   \* turns extractTurns collects
MaxTitleLen == 3     \* characters of the chat title's text
MaxRenderTurns == 2  \* turns handed to the exporters' entry point

(***************************************************************************)
(* Program constants.                                                      *)
(***************************************************************************)
OBSERVER_THROTTLE_MS == 200

\* Granularity of the clock, in ms.
TickMs == 100

Roles == {"user", "assistant"}

\* The browsing contexts the script is loaded into: the tab's top-level
\* window and a frame nested in it.
Windows == {"top", "nested"}

(***************************************************************************)
(* JavaScript numbers, as far as data-uindex needs them: a finite value is *)
(* kept as twice its value (x2), so 0.5 is x2 = 1; NaN is not finite.      *)
(***************************************************************************)
Num(i) == [fin |-> TRUE, x2 |-> 2 * i]
NaN == [fin |-> FALSE, x2 |-> 0]
IsFinite(v) == v.fin
IsInteger(v) == v.fin /\ v.x2 % 2 = 0

\* String(idx) for the indexes the list builder writes.
DecimalStrings == <<"0", "1", "2", "3", "4", "5", "6", "7", "8", "9">>
StringOfIndex(i) == DecimalStrings[i + 1]

\* Number(str) on the attribute values of the model.
NumberOf(s) ==
  IF \E i \in 1..Len(DecimalStrings) : DecimalStrings[i] = s
    THEN Num((CHOOSE i \in 1..Len(DecimalStrings) : DecimalStrings[i] = s) - 1)
  ELSE IF s = "0.5" THEN [fin |-> TRUE, x2 |-> 1]
  ELSE IF s = "1.5" THEN [fin |-> TRUE, x2 |-> 3]
  ELSE IF s = "-1" THEN Num(-1)
  ELSE NaN

Max(a, b) == IF a >= b THEN a ELSE b
Min(a, b) == IF a <= b THEN a ELSE b

RECURSIVE Insert(_, _)
Insert(v, sorted) ==
  IF sorted = <<>> THEN <<v>>
  ELSE IF v.x2 < Head(sorted).x2 THEN <<v>> \o sorted
  ELSE <<Head(sorted)>> \o Insert(v, Tail(sorted))

\* arr.sort((a, b) => a - b) on finite numbers (stable).
RECURSIVE SortAsc(_)
SortAsc(s) ==
  IF s = <<>> THEN <<>>
  ELSE Insert(s[Len(s)], SortAsc(SubSeq(s, 1, Len(s) - 1)))

\* arr.filter((n, i, arr) => arr.indexOf(n) === i)
RECURSIVE Dedupe(_)
Dedupe(s) ==
  IF s = <<>> THEN <<>>
  ELSE LET init == Dedupe(SubSeq(s, 1, Len(s) - 1))
           last == s[Len(s)]
       IN IF \E i \in 1..(Len(s) - 1) : s[i] = last THEN init
          ELSE Append(init, last)

RECURSIVE Flatten(_)
Flatten(ss) == IF ss = <<>> THEN <<>> ELSE Head(ss) \o Flatten(Tail(ss))


(***************************************************************************)
(* State.                                                                  *)
(***************************************************************************)
VARIABLES
  doc,                \* the conversation: turn elements in document order
  nStyle,             \* <style id=chatworthy-styles> elements in the document
  nRoot,              \* elements with id ROOT_ID in the document
  nControls,          \* elements with id CONTROLS_ID in the document
  nList,              \* elements with id LIST_ID in the document
  rows,               \* the list's checkbox rows: data-uindex and checked
  placeholder,        \* the list holds the 'No prompts detected yet.' line
  allDisabled,        \* disabled flag of the All button
  noneDisabled,       \* disabled flag of the None button
  exportDisabled,     \* disabled flag of the Export button
  observersSuspended, \* module flag set by suspendObservers
  sinceObserverRun,   \* performance.now() - lastObserverRun, in ms, counted
                      \* up to the throttle interval
  scheduled,          \* module flag of scheduleEnsure
  pending,            \* where the scheduled reaction waits: frame or idle
  pending2,           \* where a second run closure waits, requested while
                      \* the first was still outstanding ("none": there is
                      \* no second one)
  repairTimer,        \* "set" while the repair interval runs, else "null"
  records,            \* mutation records queued for the observer
  effects,            \* what the current task showed the user and saved, and
                      \* the DOM writes a reconcile pass made in it, each with
                      \* the value of observersSuspended when it was made
  dirty,              \* a host change was observed and no pass began since
  observing,          \* the MutationObserver is attached to <body>
  initFlag,           \* window.__chatworthy_init__, per window
  initCount,          \* calls of init(), per window
  lsDisable,          \* localStorage 'chatworthy:disable' ("null": no entry)
  urlDisable,         \* location.search has the chatworthy-disable parameter
  storageThrows,      \* access to localStorage throws (site data blocked)
  busy,               \* the page keeps the main thread busy: the browser
                      \* finds no idle period
  trigger,            \* the CHATWORTHY_EXPORT message in flight to the tab:
                      \* its format, or "none"
  collapsed,          \* data-collapsed of the root ("none": no root)
  exportFormat,       \* module variable exportFormat
  lsCollapsed,        \* localStorage 'chatworthy:collapsed'
  lsFormat,           \* localStorage 'chatworthy:export-format'
  listDisplay,        \* style.display of the list ("absent": no list)
  toggleLabel,        \* text of the toggle button ("absent": no controls)
  tree,               \* a document for the classifier: elements in document
                      \* order, with the tool's tags, labels and hidden marks
  lastTuples,         \* what the last run of the classifier returned
  ran,                \* the function under check has run on its input
  turnsIn,            \* the turns extractTurns collected, before its
                      \* de-duplication
  uniq,               \* the turns extractTurns returned
  pageTitle,          \* text of the host's element holding the chat title
  projectName,        \* text of the host's project label ("" when absent)
  exportMeta,         \* the metadata buildExportFromTurns built last
  frontMatter,        \* the front-matter block of the last export
  renderIn,           \* the arguments of a call of the exporters' entry
                      \* point: metadata, turns and the title option
  rendered            \* the document the call returned

docVars == <<doc>>
uiVars == <<nStyle, nRoot, nControls, nList, rows, placeholder,
            allDisabled, noneDisabled, exportDisabled>>
loopVars == <<observersSuspended, sinceObserverRun, scheduled, pending, pending2,
              repairTimer>>
bootVars == <<observing, initFlag, initCount, lsDisable, urlDisable,
              storageThrows, busy, trigger>>
prefVars == <<collapsed, exportFormat, lsCollapsed, lsFormat, listDisplay,
              toggleLabel>>
vars == <<doc, nStyle, nRoot, nControls, nList, rows, placeholder,
          allDisabled, noneDisabled, exportDisabled, observersSuspended,
          sinceObserverRun, scheduled, pending, pending2, repairTimer, records,
          effects, dirty, observing, initFlag, initCount, lsDisable,
          urlDisable, storageThrows, busy, trigger, collapsed, exportFormat,
          lsCollapsed, lsFormat, listDisplay, toggleLabel, tree, lastTuples, ran, turnsIn, uniq, pageTitle,
          projectName, exportMeta, frontMatter, renderIn, rendered>>

\* The state of the content script's page.
pageVars == <<doc, nStyle, nRoot, nControls, nList, rows, placeholder,
              allDisabled, noneDisabled, exportDisabled, observersSuspended,
              sinceObserverRun, scheduled, pending, pending2, repairTimer, records,
              effects, dirty, observing, initFlag, initCount, lsDisable,
              urlDisable, storageThrows, busy, trigger, collapsed, exportFormat,
              lsCollapsed, lsFormat, listDisplay, toggleLabel>>
\* The inputs and results of the functions checked on their own.
pureVars == <<tree, lastTuples, ran, turnsIn, uniq, pageTitle, projectName,
              exportMeta, frontMatter, renderIn, rendered>>
classifyVars == <<tree, lastTuples>>
dedupVars == <<turnsIn, uniq>>
exportVars == <<pageTitle, projectName, exportMeta, frontMatter>>
renderVars == <<renderIn, rendered>>

NoEffects == [alert |-> "none", saved |-> FALSE, turns |-> <<>>, writes |-> {}]

\* The value undefined, where a function tells it from the empty string.
Undefined == <<"undefined">>

\* The metadata that differs from one export of a conversation to the
\* next: the note's id, the chat's id (<<>>: the address has none), the
\* address and the time of the export.
VolatileValues ==
  [noteId : {<<"n1">>, <<"n2">>}, chatId : {<<>>, <<"c1">>, <<"c2">>},
   pageUrl : {<<"u1">>, <<"u2">>}, exportedAt : {<<"t1">>, <<"t2">>}]

\* Two exports of one conversation.
Stamps ==
  {[noteId |-> <<"n1">>, chatId |-> <<"c1">>, pageUrl |-> <<"u1">>,
    exportedAt |-> <<"t1">>],
   [noteId |-> <<"n2">>, chatId |-> <<>>, pageUrl |-> <<"u2">>,
    exportedAt |-> <<"t2">>]}

\* The arguments before the caller has filled any in.
NoRenderInput ==
  [chatTitle |-> Undefined, title |-> Undefined,
   volatile |-> CHOOSE v \in Stamps : v.chatId # <<>>, turns |-> <<>>]

\* No function is being checked on its own.
PureIdle ==
  /\ tree = <<>>
  /\ lastTuples = <<>>
  /\ ran = FALSE
  /\ turnsIn = <<>>
  /\ uniq = <<>>
  /\ pageTitle = <<>>
  /\ projectName = <<>>
  /\ exportMeta = <<>>
  /\ frontMatter = <<>>
  /\ renderIn = NoRenderInput
  /\ rendered = <<>>

(***************************************************************************)
(* The classifier on a document tree.  An element is one of a few kinds:   *)
(*   turn           [data-testid="conversation-turn"]                      *)
(*   msgUser, msgAssistant                                                 *)
(*                  [data-message-id] with data-message-author-role        *)
(*   roleUser, roleAssistant, roleTool                                     *)
(*                  data-message-author-role alone                         *)
(*   section        an article, li or section without those attributes     *)
(*   markdown       a .markdown block, with text of its own                *)
(*   name           [data-testid="author-name"] whose text is a role word  *)
(*   text           a div with ordinary text                               *)
(* Elements are numbered in document order; parent 0 is <body>.  No        *)
(* element of these documents carries the bubble or items-end classes.     *)
(***************************************************************************)
Kinds == {"turn", "msgUser", "msgAssistant", "roleUser", "roleAssistant",
          "roleTool", "section", "markdown", "name", "text"}

\* An element as the host renders it: no tag, label or mark of the tool.
HostNode(p, k) ==
  [parent |-> p, kind |-> k, cwRole |-> "none", label |-> "none",
   hidden |-> FALSE]

\* The element and its ancestors, nearest first.
RECURSIVE Chain(_, _)
Chain(t, i) == IF i = 0 THEN <<>> ELSE <<i>> \o Chain(t, t[i].parent)

\* root.contains(i)
Contains(t, root, i) == \E k \in 1..Len(Chain(t, i)) : Chain(t, i)[k] = root

\* el.closest(selector), for the set S of elements the selector matches;
\* 0 stands for null.
Closest(t, i, S) ==
  LET c == Chain(t, i)
      hits == {k \in 1..Len(c) : c[k] \in S}
  IN IF hits = {} THEN 0
     ELSE c[CHOOSE k \in hits : \A h \in hits : k <= h]

\* The elements of a set, in document order.
RECURSIVE InOrder(_, _)
InOrder(S, n) ==
  IF n = 0 THEN <<>>
  ELSE IF n \in S THEN Append(InOrder(S, n - 1), n)
  ELSE InOrder(S, n - 1)

OfKind(t, kinds) == {i \in 1..Len(t) : t[i].kind \in kinds}

\* getAttribute('data-message-author-role'), lower-cased; "" without it.
AuthorRole(n) ==
  IF n.kind \in {"msgUser", "roleUser"} THEN "user"
  ELSE IF n.kind \in {"msgAssistant", "roleAssistant"} THEN "assistant"
  ELSE IF n.kind = "roleTool" THEN "tool"
  ELSE ""

\* querySelectorAll of the three candidate selectors.
Candidates(t) ==
  InOrder(OfKind(t, {"turn", "msgUser", "msgAssistant", "roleUser",
                     "roleAssistant", "roleTool"}), Len(t))

pickRoot(t, n) ==
  LET a == Closest(t, n, OfKind(t, {"turn"}))
      b == Closest(t, n, OfKind(t, {"msgUser", "msgAssistant"}))
      c == Closest(t, n, OfKind(t, {"section"}))
  IN IF a # 0 THEN a ELSE IF b # 0 THEN b ELSE IF c # 0 THEN c ELSE n

roleOf(t, root) ==
  LET inside == {i \in 1..Len(t) :
                   i # root /\ Contains(t, root, i) /\ AuthorRole(t[i]) # ""}
      attrNode == IF AuthorRole(t[root]) # "" THEN root
                  ELSE IF inside = {} THEN 0
                  ELSE CHOOSE i \in inside : \A j \in inside : i <= j
      raw == IF attrNode = 0 THEN "" ELSE AuthorRole(t[attrNode])
  IN IF raw \in {"user", "assistant"} THEN raw ELSE "assistant"

Seen(chosen, root) == \E k \in 1..Len(chosen) : chosen[k].el = root

\* The loop over the candidates.
RECURSIVE MainLoop(_, _, _)
MainLoop(t, cands, chosen) ==
  IF cands = <<>> THEN chosen
  ELSE LET root == pickRoot(t, Head(cands))
       IN IF Seen(chosen, root) THEN MainLoop(t, Tail(cands), chosen)
          ELSE MainLoop(t, Tail(cands),
                        Append(chosen, [el |-> root, role |-> roleOf(t, root)]))

\* root.setAttribute('data-cw-role', role) for every chosen root.
TagMutantAllUser(t, chosen) ==
  [i \in 1..Len(t) |->
     IF Seen(chosen, i) THEN [t[i] EXCEPT !.cwRole = "user"] ELSE t[i]]
Tag(t, chosen) ==
  [i \in 1..Len(t) |->
     IF Seen(chosen, i)
       THEN [t[i] EXCEPT !.cwRole =
               chosen[CHOOSE k \in 1..Len(chosen) : chosen[k].el = i].role]
     ELSE t[i]]

\* The safety-net sweep over the markdown blocks.
RECURSIVE Sweep(_, _, _)
Sweep(t, extras, chosen) ==
  IF extras = <<>> THEN chosen
  ELSE LET md == Head(extras)
           inUser == Closest(t, md, {i \in 1..Len(t) : t[i].cwRole = "user"}) # 0
           root == pickRoot(t, md)
       IN IF inUser \/ Seen(chosen, root) THEN Sweep(t, Tail(extras), chosen)
          ELSE Sweep(t, Tail(extras),
                     Append(chosen, [el |-> root, role |-> "assistant"]))

\* getMessageTuples on a tree: the tuples it returns and the tree with the
\* data-cw-role tags it wrote.
getMessageTuplesOfTree(t) ==
  LET main == MainLoop(t, Candidates(t), <<>>)
      t1 == Tag(t, main)
      all == IF \E k \in 1..Len(main) : main[k].role = "assistant" THEN main
             ELSE Sweep(t1, InOrder(OfKind(t, {"markdown"}), Len(t)), main)
  IN [chosen |-> all, tree |-> Tag(t1, all)]

\* The text an element holds itself, apart from its children's.
OwnText(t, i) ==
  IF t[i].kind = "name" THEN <<"You">>
  ELSE IF t[i].kind \in {"markdown", "text"} THEN <<StringOfIndex(i)>>
  ELSE <<>>

\* The text of the tool's label under an element, if it has one.
LabelText(t, i) == IF t[i].label = "none" THEN <<>> ELSE <<t[i].label>>

\* el.textContent: the label and the text of the whole subtree.
RECURSIVE TextFrom(_, _, _)
TextFrom(t, el, i) ==
  IF i > Len(t) THEN <<>>
  ELSE (IF Contains(t, el, i) THEN LabelText(t, i) \o OwnText(t, i) ELSE <<>>)
       \o TextFrom(t, el, i + 1)
textContent(t, el) == TextFrom(t, el, el)

\* An element of the clone that cloneWithoutInjected removes: it lies
\* under el and it, or an element between it and el, carries
\* data-cw-hidden="1".
Removed(t, el, i) ==
  \E k \in 1..Len(Chain(t, i)) :
    LET a == Chain(t, i)[k]
    IN a # el /\ Contains(t, el, a) /\ t[a].hidden

\* cloneWithoutInjected(el).textContent: no label, no hidden element.
RECURSIVE CleanFrom(_, _, _)
CleanFrom(t, el, i) ==
  IF i > Len(t) THEN <<>>
  ELSE (IF Contains(t, el, i) /\ ~Removed(t, el, i) THEN OwnText(t, i)
        ELSE <<>>)
       \o CleanFrom(t, el, i + 1)

cloneWithoutInjected(t, el) == CleanFrom(t, el, el)

\* isRoleWord(node.textContent)
IsRoleWord(t, i) == textContent(t, i) = <<"You">>

\* hideNativeRoleLabels(container): the author-name elements under the
\* container whose text is a role word are hidden and marked.  In these
\* documents only such an element, or one wrapped around it, has a role
\* word for text, so the tree-walker and header fallbacks find nothing the
\* selectors have not.
hideNativeRoleLabels(t, container) ==
  [i \in 1..Len(t) |->
     IF /\ i # container
        /\ Contains(t, container, i)
        /\ t[i].kind = "name"
        /\ IsRoleWord(t, i)
       THEN [t[i] EXCEPT !.hidden = TRUE]
     ELSE t[i]]

\* The label relabelAndRestyleMessages prepends once.
InsertLabel(t, el, role) ==
  IF t[el].label # "none" THEN t
  ELSE [t EXCEPT ![el].label = IF role = "user" THEN "Prompt" ELSE "Response"]

\* The loop of relabelAndRestyleMessages over the tuples.
RECURSIVE RelabelLoop(_, _)
RelabelLoop(t, chosen) ==
  IF chosen = <<>> THEN t
  ELSE RelabelLoop(InsertLabel(hideNativeRoleLabels(t, Head(chosen).el),
                               Head(chosen).el, Head(chosen).role),
                   Tail(chosen))

\* The host renders one more element, the last in document order: a child
\* of <body> or of an element that is still open.
HostAddElement(p, k) ==
  /\ Len(tree) < MaxNodes
  /\ p = 0 \/ (tree # <<>> /\ p \in 1..Len(tree) /\ Contains(tree, p, Len(tree)))
  /\ tree' = Append(tree, HostNode(p, k))
  /\ ran' = FALSE
  /\ UNCHANGED <<lastTuples, dedupVars, exportVars, pageVars,
                 renderVars>>

\* getMessageTuples is called on the classifier's document.
ClassifyTree ==
  /\ tree # <<>>
  /\ lastTuples' = getMessageTuplesOfTree(tree).chosen
  /\ tree' = getMessageTuplesOfTree(tree).tree
  /\ ran' = TRUE
  /\ UNCHANGED <<dedupVars, exportVars, pageVars,
                 renderVars>>

\* relabelAndRestyleMessages is called on the classifier's document.
RelabelTree ==
  /\ tree # <<>>
  /\ LET r == getMessageTuplesOfTree(tree)
     IN /\ lastTuples' = r.chosen
        /\ tree' = RelabelLoop(r.tree, r.chosen)
  /\ ran' = TRUE
  /\ UNCHANGED <<dedupVars, exportVars, pageVars,
                 renderVars>>

(***************************************************************************)
(* extractTurns and its de-duplication.  A text is kept as its first 80    *)
(* characters (head) and what follows them (rest).                         *)
(***************************************************************************)
TextHeads == {"a", "b"}
TextRests == {"", "x"}

\* t.role + '|' + (t.text || '').slice(0, 80)
DedupKey(t) == <<t.role, t.text.head>>

\* The loop over the turns with the set of keys seen so far.
RECURSIVE DedupLoop(_, _, _)
DedupLoop(turns, seen, out) ==
  IF turns = <<>> THEN out
  ELSE IF DedupKey(Head(turns)) \in seen THEN DedupLoop(Tail(turns), seen, out)
  ELSE DedupLoop(Tail(turns), seen \cup {DedupKey(Head(turns))},
                 Append(out, Head(turns)))

\* The host renders one more turn for extractTurns to collect.
HostAddTurn(role, head, rest) ==
  /\ Len(turnsIn) < MaxDedupTurns
  /\ turnsIn' = Append(turnsIn, [role |-> role,
                                  text |-> [head |-> head, rest |-> rest]])
  /\ ran' = FALSE
  /\ UNCHANGED <<uniq, classifyVars, exportVars, pageVars,
                 renderVars>>

\* extractTurns returns.
ExtractTurns ==
  /\ turnsIn # <<>>
  /\ uniq' = DedupLoop(turnsIn, {}, <<>>)
  /\ ran' = TRUE
  /\ UNCHANGED <<turnsIn, classifyVars, exportVars, pageVars,
                 renderVars>>

(***************************************************************************)
(* The exporters.  A string is a sequence of characters; of the characters *)
(* only the ones the escaping treats differently are told apart: the       *)
(* double quote, the backslash, the newline, the letter n (which follows   *)
(* the backslash of an escaped newline) and any other character.  A word   *)
(* the exporters write themselves (a key with its colon, a bracket, a      *)
(* literal) is one element.  undefined and the empty string are both the   *)
(* empty sequence: every test the exporters make on a string treats them   *)
(* alike.                                                                  *)
(***************************************************************************)
Quote == "quote"
Backslash == "backslash"
Newline == "newline"
Chars == {"a", "n", Quote, Backslash, Newline}
Null == <<"null">>
ExportFormats == {"markdown_html", "markdown_pure"}

\* String.prototype.trim, of the whitespace only the newline being modelled.
RECURSIVE Trim(_)
Trim(str) ==
  IF str = <<>> THEN str
  ELSE IF Head(str) = Newline THEN Trim(Tail(str))
  ELSE IF str[Len(str)] = Newline THEN Trim(SubSeq(str, 1, Len(str) - 1))
  ELSE str

\* str.replace(/c/g, by)
RECURSIVE ReplaceAll(_, _, _)
ReplaceAll(str, c, by) ==
  IF str = <<>> THEN <<>>
  ELSE (IF Head(str) = c THEN by ELSE <<Head(str)>>)
         \o ReplaceAll(Tail(str), c, by)

yamlEscapeMutantQuoteFirst(val) ==
  <<Quote>>
    \o ReplaceAll(ReplaceAll(ReplaceAll(val, Quote, <<Backslash, Quote>>),
                              Backslash, <<Backslash, Backslash>>),
                   Newline, <<Backslash, "n">>)
    \o <<Quote>>

yamlEscape(val) ==
  <<Quote>>
    \o ReplaceAll(ReplaceAll(ReplaceAll(val, Backslash,
                                         <<Backslash, Backslash>>),
                              Quote, <<Backslash, Quote>>),
                   Newline, <<Backslash, "n">>)
    \o <<Quote>>

\* array.join(sep)
RECURSIVE Join(_, _)
Join(strs, sep) ==
  IF strs = <<>> THEN <<>>
  ELSE IF Len(strs) = 1 THEN Head(strs)
  ELSE Head(strs) \o sep \o Join(Tail(strs), sep)

\* array.map(yamlEscape)
EscapeEach(strs) == [i \in 1..Len(strs) |-> yamlEscape(strs[i])]

\* The template `key: value`.
Line(key, value) == <<key>> \o value

\* A line written under a condition.
LineIf(cond, line) == IF cond THEN <<line>> ELSE <<>>

toYAML(meta) ==
  Join(<< <<"---">>,
          Line("noteId", yamlEscape(meta.noteId)),
          Line("source", yamlEscape(meta.source)) >>
       \o LineIf(meta.chatId # <<>>, Line("chatId", yamlEscape(meta.chatId)))
       \o LineIf(meta.chatTitle # <<>>,
                 Line("chatTitle", yamlEscape(meta.chatTitle)))
       \o << Line("pageUrl", yamlEscape(meta.pageUrl)),
             Line("exportedAt", yamlEscape(meta.exportedAt)) >>
       \o LineIf(meta.model # <<>>, Line("model", yamlEscape(meta.model)))
       \o << Line("subject", yamlEscape(meta.subject)),
             Line("topic", yamlEscape(meta.topic)),
             Line("summary", IF meta.summary = Null THEN <<"null">>
                             ELSE yamlEscape(meta.summary)),
             Line("tags", <<"[">> \o Join(EscapeEach(meta.tags), <<", ">>)
                            \o <<"]">>),
             <<"autoGenerate">>,
             <<"autoGenerate">>,
             Line("  summary", <<ToString(meta.autoGenerate.summary)>>),
             Line("  tags", <<ToString(meta.autoGenerate.tags)>>) >>
       \o LineIf(meta.noteMode # <<>>,
                 Line("noteMode", yamlEscape(meta.noteMode)))
       \o << Line("turnCount", <<ToString(meta.turnCount)>>) >>
       \o LineIf(Len(meta.splitHints) > 0,
                 Line("splitHints",
                      <<"[">> \o Join(EscapeEach(meta.splitHints), <<", ">>)
                        \o <<"]">>))
       \o LineIf(meta.author # <<>>, Line("author", yamlEscape(meta.author)))
       \o LineIf(meta.visibility # <<>>,
                 Line("visibility", yamlEscape(meta.visibility)))
       \o << <<"---">> >>,
       <<Newline>>)

\* One entry of kv in renderFrontMatter, for a value that is a string,
\* undefined or null: String(v), unless it is skipped.
KvLine(key, value) == LineIf(value # <<>> /\ value # Null, Line(key, value))

\* tags is an array whenever the content script exports (it is never
\* undefined), so it is never skipped: JSON.stringify(v).
renderFrontMatter(meta) ==
  Join(<< <<"---">> >>
       \o KvLine("noteId", meta.noteId)
       \o KvLine("source", meta.source)
       \o KvLine("chatId", meta.chatId)
       \o KvLine("chatTitle", meta.chatTitle)
       \o KvLine("pageUrl", meta.pageUrl)
       \o KvLine("exportedAt", meta.exportedAt)
       \o KvLine("model", meta.model)
       \o KvLine("subject", meta.subject)
       \o KvLine("topic", meta.topic)
       \o KvLine("summary", meta.summary)
       \o << Line("tags", <<"[">> \o Join(EscapeEach(meta.tags), <<",">>)
                            \o <<"]">>) >>
       \o << <<"---">>, <<>> >>,
       <<Newline>>)

\* The front-matter block of buildMarkdownExportByFormat's result: toYAML
\* through toMarkdownWithFrontMatter, renderFrontMatter through
\* toPureMarkdownChatStyle with includeFrontMatter.
buildMarkdownExportByFormat(format, meta) ==
  IF format = "markdown_pure" THEN renderFrontMatter(meta) ELSE toYAML(meta)

\* getChatTitleAndProject: the trimmed text of the title element.
ChatTitle(text) == Trim(text)

\* getSubjectTopicAndChatTitle, on titles without a separator (" - ", ":",
\* a dash): the first piece of the split is the whole title.
Subject(title, project) == IF project # <<>> THEN project ELSE Trim(title)

\* normalizeTopic and its default: without a separator nothing is stripped.
Topic(title) == IF title = <<>> THEN <<"Untitled Conversation">> ELSE Trim(title)

\* The meta object of buildExportFromTurns, on a conversation page.
ExportMetadata(title, project, n) ==
  [noteId |-> <<"ext-id">>, source |-> <<"chatgpt">>, chatId |-> <<"id">>,
   chatTitle |-> title, pageUrl |-> <<"href">>, exportedAt |-> <<"iso">>,
   model |-> <<>>, subject |-> Subject(title, project),
   topic |-> Topic(title), summary |-> Null, tags |-> <<>>,
   autoGenerate |-> [summary |-> TRUE, tags |-> TRUE],
   noteMode |-> <<"auto">>, turnCount |-> n, splitHints |-> <<>>,
   author |-> <<"me">>, visibility |-> <<"private">>]

(***************************************************************************)
(* The whole document.  The title is undefined, empty or a text; the other *)
(* optional fields of the metadata are absent.                             *)
(***************************************************************************)

\* A value a condition takes for true.
Truthy(v) == v # Undefined /\ v # <<>> /\ v # Null

\* For the functions that treat undefined and '' alike.
Plain(v) == IF v = Undefined THEN <<>> ELSE v
PlainMeta(meta) == [meta EXCEPT !.chatTitle = Plain(@)]

\* The titles a caller passes.
Titles == {Undefined, <<>>, <<"a">>}

\* roleLabel of the pure exporter.
roleLabel(role) ==
  CASE role = "user" -> "You"
    [] role = "assistant" -> "ChatGPT"
    [] role = "system" -> "System"
    [] OTHER -> "Tool"

\* `**${label}:**  `, the label line of a turn.
LabelLine(role) == "**" \o roleLabel(role) \o ":**  "

\* The texts of a turn: empty, one line, two lines, and a text quoting an
\* earlier export, whose first line is the label line of an answer.  The
\* content script trims the texts it collects.
TurnTexts ==
  {<<>>, <<"a">>, <<"a", Newline, "b">>,
   <<LabelLine("assistant"), Newline, "a">>}

\* String.prototype.trimEnd
RECURSIVE trimEnd(_)
trimEnd(str) ==
  IF str # <<>> /\ str[Len(str)] = Newline
    THEN trimEnd(SubSeq(str, 1, Len(str) - 1))
  ELSE str

\* `**${label}:**  \n${body}`; texts hold no carriage return, so the
\* replacement of \r\n finds nothing.
TurnBlock(t) == <<LabelLine(t.role), Newline>> \o trimEnd(t.text)

\* sep, with hrBetween
Separator == <<Newline, "---", Newline, Newline>>

\* The meta rows and the empty line after them.
MetaRowsMutantUnlabelled(meta) ==
  LineIf(meta.pageUrl # <<>>, meta.pageUrl)
    \o LineIf(meta.exportedAt # <<>>, meta.exportedAt)
    \o << <<>> >>
MetaRows(meta) ==
  LineIf(meta.pageUrl # <<>>, Line("Source", meta.pageUrl))
    \o LineIf(meta.exportedAt # <<>>, Line("Exported", meta.exportedAt))
    \o << <<>> >>

\* title = meta.chatTitle || 'Chat Export' as the default of the
\* destructuring: it applies where opts.title is undefined only.
PureTitle(meta, opts) ==
  IF opts.title = Undefined
    THEN IF Truthy(meta.chatTitle) THEN meta.chatTitle ELSE <<"Chat Export">>
  ELSE opts.title

toPureMarkdownChatStyle(meta, turns, opts) ==
  LET blocks == Join([i \in 1..Len(turns) |-> TurnBlock(turns[i])],
                     Separator)
      out == << renderFrontMatter(PlainMeta(meta)),
                Line("# ", PureTitle(meta, opts)), <<>> >>
             \o MetaRows(meta)
             \o <<blocks>>
  IN Join(IF blocks # <<>> THEN Append(out, <<>>) ELSE out, <<Newline>>)

\* One entry of the turns block: role and escaped text.
TurnEntry(t) == <<"- role", t.role, Newline, "  text">> \o yamlEscape(t.text)

toMarkdownWithFrontMatter(meta, turns) ==
  toYAML(PlainMeta(meta))
    \o <<Newline, Newline, "# Transcript", Newline, Newline>>
    \o Join(<< <<":::turns">> >>
              \o [i \in 1..Len(turns) |-> TurnEntry(turns[i])]
              \o << <<":::end-turns">> >>,
            <<Newline>>)
    \o <<Newline>>

\* buildMarkdownExportByFormat, the whole document.
buildMarkdownExport(format, meta, turns, opts) ==
  LET metaWithTitle == IF Truthy(opts.title)
                         THEN [meta EXCEPT !.chatTitle = opts.title]
                       ELSE meta
  IN IF format = "markdown_pure"
       THEN toPureMarkdownChatStyle(metaWithTitle, turns,
                                    [title |-> metaWithTitle.chatTitle])
     ELSE toMarkdownWithFrontMatter(metaWithTitle, turns)

\* The metadata of a caller that fills in the required fields, the title
\* and the chat's id only.
RenderMeta(in) ==
  [noteId |-> in.volatile.noteId, source |-> <<"chatgpt">>,
   chatId |-> in.volatile.chatId, chatTitle |-> in.chatTitle,
   pageUrl |-> in.volatile.pageUrl, exportedAt |-> in.volatile.exportedAt,
   model |-> <<>>, subject |-> <<>>, topic |-> <<>>, summary |-> <<>>,
   tags |-> <<>>, autoGenerate |-> [summary |-> TRUE, tags |-> TRUE],
   noteMode |-> <<>>, turnCount |-> Len(in.turns), splitHints |-> <<>>,
   author |-> <<>>, visibility |-> <<>>]

(***************************************************************************)
(* Message discovery and the selected payload.                             *)
(***************************************************************************)

\* The ordered { el, role } tuples of the conversation.
getMessageTuples(d) == [i \in 1..Len(d) |-> [role |-> d[i].role]]

\* Checked boxes under the root, as finite numbers in ascending order.
getSelectedPromptIndexes(rws, rootN) ==
  IF rootN = 0 THEN <<>>
  ELSE LET checked == SelectSeq(rws, LAMBDA r : r.checked)
           nums == [i \in 1..Len(checked) |-> NumberOf(checked[i].uindex)]
       IN SortAsc(SelectSeq(nums, IsFinite))

\* allTurns[idx] for a JavaScript number idx: undefined unless idx is an
\* integer inside the array.
HasElement(v, n) == IsInteger(v) /\ v.x2 >= 0 /\ v.x2 < 2 * n

\* Lines 206-210: finite, first occurrences only, ascending.
NormalizeSelectionMutantNoDedupe(raw) == SortAsc(SelectSeq(raw, IsFinite))
NormalizeSelection(raw) == SortAsc(Dedupe(SelectSeq(raw, IsFinite)))

\* The callback of line 212 reads allTurns[idx].role once idx >= 0 and
\* idx < allTurns.length hold; it raises a TypeError when allTurns[idx] is
\* undefined.
RoleFilterThrows(v, allTurns) ==
  /\ v.x2 >= 0
  /\ v.x2 < 2 * Len(allTurns)
  /\ ~HasElement(v, Len(allTurns))


RoleFilterKeeps(v, allTurns) ==
  /\ v.x2 >= 0
  /\ v.x2 < 2 * Len(allTurns)
  /\ HasElement(v, Len(allTurns))
  /\ allTurns[(v.x2 \div 2) + 1].role = "user"

\* Line 221: where the range of selected[i] is cut.
NextCutMutantAlwaysEnd(selected, i, n) == n
NextCut(selected, i, n) ==
  IF i + 1 <= Len(selected) THEN selected[i + 1] ELSE n

\* Lines 222-223.
RangeStart(uIdx, n) == Max(0, Min(uIdx, n))
RangeEnd(start, nextCut, n) == Max(start + 1, Min(nextCut, n))

\* Positions start .. end-1, in order.
Positions(start, end) == [k \in 1..(end - start) |-> start + k - 1]

\* Lines 219-231: the positions pushed, range after range.
ExpandedPositions(selected, n) ==
  Flatten([i \in 1..Len(selected) |->
    LET start == RangeStart(selected[i], n)
        end == RangeEnd(start, NextCut(selected, i, n), n)
    IN Positions(start, end)])

\* The result of buildSelectedPayload: threw is TRUE when the call raised.
buildSelectedPayload(d, rws, rootN) ==
  LET allTurns == getMessageTuples(d)
      n == Len(allTurns)
      raw == getSelectedPromptIndexes(rws, rootN)
      norm == NormalizeSelection(raw)
      filterThrew == \E k \in 1..Len(norm) : RoleFilterThrows(norm[k], allTurns)
      kept == SelectSeq(norm, LAMBDA v : RoleFilterKeeps(v, allTurns))
      selected == [i \in 1..Len(kept) |-> kept[i].x2 \div 2]
      positions == ExpandedPositions(selected, n)
      loopThrew == \E k \in 1..Len(positions) : positions[k] >= n
  IN IF filterThrew \/ loopThrew
       THEN [threw |-> TRUE, turns |-> <<>>]
       ELSE [threw |-> FALSE,
             turns |-> [k \in 1..Len(positions) |->
                          [pos |-> positions[k],
                           role |-> allTurns[positions[k] + 1].role]]]

(***************************************************************************)
(* The control surface.                                                    *)
(***************************************************************************)

\* Targets of childList records.  "body": a child of <body> was added or
\* removed (the root, the download link); "thread": the host's conversation
\* container; "message": a turn element (a role label was prepended);
\* "root" and "list": the children of the root and of the list changed.
InsideRoot(target) == target \in {"root", "list"}
Rec(target, by) == [target |-> target, by |-> by]

\* mo.observe(body, { childList, subtree }): records are queued only while
\* the observer is attached.
Queue(rs) == IF observing THEN rs ELSE {}

\* localStorage.getItem under try/catch: "throws" when access is denied.
GetItem(raw) == IF storageThrows THEN "throws" ELSE raw

\* localStorage.setItem under try/catch: the entry after the call.
SetItem(raw, v) == IF storageThrows THEN raw ELSE v

getInitialCollapsed(raw) ==
  IF GetItem(raw) = "0" THEN FALSE
  ELSE IF GetItem(raw) = "1" THEN TRUE
  ELSE TRUE

getInitialExportFormatMutantAnyStored(raw) ==
  IF GetItem(raw) \in {"null", "throws"} THEN "markdown_html" ELSE GetItem(raw)
getInitialExportFormat(raw) ==
  IF GetItem(raw) \in {"markdown_pure", "markdown_html"} THEN GetItem(raw)
  ELSE "markdown_html"

\* The toggle button's text for a value of data-collapsed.
ToggleLabel(c) == IF c = "1" THEN "Show List" ELSE "Hide List"

\* style.display of the list for a value of data-collapsed.
ListDisplayMutantAlwaysBlock(c) == "block"
ListDisplay(c) == IF c = "1" THEN "none" ELSE "block"

\* v ? '1' : '0'
CollapsedString(v) == IF v THEN "1" ELSE "0"

\* data-collapsed of the root after step 1 of a pass: a root that is
\* created gets setCollapsed(getInitialCollapsed()), one that exists is
\* left alone.
RootCollapsedMutantAlwaysStored(rootN, cur, raw) ==
  CollapsedString(getInitialCollapsed(raw))
RootCollapsed(rootN, cur, raw) ==
  IF rootN = 0 THEN CollapsedString(getInitialCollapsed(raw)) ELSE cur

\* if (!el) { el = createElement(...); parent.appendChild(el) }
CreateIfMissingMutantAlways(n) == n + 1
CreateIfMissing(n) == IF n = 0 THEN 1 ELSE n

getSelectionStats(rws, rootN) ==
  IF rootN = 0 THEN [total |-> 0, selected |-> 0]
  ELSE [total |-> Len(rws),
        selected |-> Cardinality({i \in 1..Len(rws) : rws[i].checked})]

\* The three disabled flags updateControlsState writes.
updateControlsStateMutantTotal(rws, rootN) ==
  LET st == getSelectionStats(rws, rootN)
  IN [all |-> st.total > 0 /\ st.selected = st.total,
      none |-> st.selected = 0,
      exp |-> st.total = 0]
updateControlsState(rws, rootN) ==
  LET st == getSelectionStats(rws, rootN)
  IN [all |-> st.total > 0 /\ st.selected = st.total,
      none |-> st.selected = 0,
      exp |-> st.selected = 0]

\* Buttons that are not in the document have no flags; FALSE stands for that.
ApplyControlsState(rws, rootN, controlsN) ==
  LET f == updateControlsState(rws, rootN)
  IN /\ allDisabled' = IF controlsN > 0 THEN f.all ELSE FALSE
     /\ noneDisabled' = IF controlsN > 0 THEN f.none ELSE FALSE
     /\ exportDisabled' = IF controlsN > 0 THEN f.exp ELSE FALSE

\* 0-based positions of the user tuples, ascending.
UserIndexes(tuples) ==
  LET F[k \in 0..Len(tuples)] ==
        IF k = 0 THEN <<>>
        ELSE IF tuples[k].role = "user" THEN Append(F[k - 1], k - 1)
        ELSE F[k - 1]
  IN F[Len(tuples)]

\* The rows the pass builds: one unchecked box per user tuple.  el is the
\* turn element the row's closure holds, given as the place that element
\* has in the document now (-1: it is no longer there).
BuildRowsMutantKeepChecked(tuples) ==
  LET u == UserIndexes(tuples)
  IN [k \in 1..Len(u) |->
        [uindex |-> StringOfIndex(u[k]), el |-> u[k],
         checked |-> k <= Len(rows) /\ rows[k].checked]]
BuildRows(tuples) ==
  LET u == UserIndexes(tuples)
  IN [k \in 1..Len(u) |->
        [uindex |-> StringOfIndex(u[k]), el |-> u[k], checked |-> FALSE]]

\* relabelAndRestyleMessages: every turn gets its role label once.
relabelAndRestyleMessages(d) == [i \in 1..Len(d) |-> [d[i] EXCEPT !.labelled = TRUE]]

\* The childList records one pass queues.
PassRecords ==
  (IF nRoot = 0 THEN {Rec("body", "tool")} ELSE {})
  \cup (IF nControls = 0 \/ nList = 0 THEN {Rec("root", "tool")} ELSE {})
  \cup (IF \E i \in 1..Len(doc) : ~doc[i].labelled
          THEN {Rec("message", "tool")} ELSE {})
  \cup {Rec("list", "tool")}

\* A DOM write and the value of observersSuspended when it is made.
Write(what, suspended) == [what |-> what, suspended |-> suspended]

\* The writes of ensureFloatingUI: ensureStyles runs before
\* suspendObservers(true), the rest inside the try block.
PassWrites ==
  (IF nStyle = 0 THEN {Write("style", FALSE)} ELSE {})
  \cup (IF nRoot = 0 THEN {Write("root", TRUE), Write("collapsed", TRUE)}
        ELSE {})
  \cup (IF nControls = 0 THEN {Write("controls", TRUE)} ELSE {})
  \cup {Write("list", TRUE)}
  \cup (IF doc # <<>> THEN {Write("relabel", TRUE)} ELSE {})

\* relabelAndRestyleMessages called by the run closure after
\* ensureFloatingUI has returned: it marks every turn again.
RunRelabelWrites == IF doc # <<>> THEN {Write("relabel", FALSE)} ELSE {}

\* The value of observersSuspended when ensureFloatingUI is left, by its
\* finally block.
FlagAfterPassMutantNoFinally(threw) == threw
FlagAfterPass(threw) == FALSE

\* One reconcile pass, from ensureStyles to the finally block, followed by
\* the writes its caller makes.
Pass(callerWrites) ==
  /\ nStyle' = CreateIfMissing(nStyle)
  /\ nRoot' = CreateIfMissing(nRoot)
  /\ nControls' = CreateIfMissing(nControls)
  /\ nList' = CreateIfMissing(nList)
  /\ doc' = relabelAndRestyleMessages(doc)
  /\ rows' = BuildRows(getMessageTuples(doc))
  /\ placeholder' = (UserIndexes(getMessageTuples(doc)) = <<>>)
  /\ ApplyControlsState(rows', nRoot', nControls')
  /\ collapsed' = RootCollapsed(nRoot, collapsed, lsCollapsed)
  /\ lsCollapsed' = IF nRoot = 0 THEN SetItem(lsCollapsed, collapsed')
                    ELSE lsCollapsed
  /\ toggleLabel' = ToggleLabel(collapsed')
  /\ listDisplay' = IF nList = 0 THEN ListDisplay(collapsed') ELSE listDisplay
  /\ observersSuspended' = FlagAfterPass(FALSE)
  /\ records' = Queue(PassRecords)
  /\ dirty' = FALSE
  /\ effects' = [NoEffects EXCEPT !.writes = PassWrites \cup callerWrites]
  /\ UNCHANGED <<pureVars, bootVars, exportFormat, lsFormat>>

ensureFloatingUI == Pass({})

(***************************************************************************)
(* Observer and scheduling.                                                *)
(***************************************************************************)

\* The batch is ignored when the root exists and contains a record's target.
BatchInsideRootMutantNoFilter(batch, rootN) == FALSE
BatchInsideRootMutantAllInside(batch, rootN) ==
  rootN > 0 /\ \A r \in batch : InsideRoot(r.target)
BatchInsideRoot(batch, rootN) ==
  rootN > 0 /\ \E r \in batch : InsideRoot(r.target)

\* now - lastObserverRun < OBSERVER_THROTTLE_MS
ThrottledMutantShorter(since) == since < TickMs
Throttled(since) == since < OBSERVER_THROTTLE_MS

\* The observer reacts to the batch: it passes the flag, the filter and the
\* throttle.
ObserverReacts ==
  /\ ~observersSuspended
  /\ ~BatchInsideRoot(records, nRoot)
  /\ ~Throttled(sinceObserverRun)

\* A batch with a host change outside the control surface, delivered while
\* the observer is not suspended.
RelevantBatch ==
  /\ ~observersSuspended
  /\ \E r \in records : r.by = "host" /\ ~InsideRoot(r.target)

\* The MutationObserver callback of makeObserver, with scheduleEnsure.
ObserverCallback ==
  /\ records # {}
  /\ records' = {}
  /\ IF ObserverReacts
       THEN /\ sinceObserverRun' = 0
            /\ scheduled' = TRUE
            /\ pending' = IF scheduled \/ pending # "none" THEN pending
                          ELSE "frame"
            /\ pending2' = IF scheduled \/ pending = "none" THEN pending2
                           ELSE "frame"
       ELSE UNCHANGED <<sinceObserverRun, scheduled, pending, pending2>>
  /\ dirty' = (dirty \/ RelevantBatch)
  /\ effects' = NoEffects
  /\ UNCHANGED <<pureVars, bootVars, prefVars, docVars, uiVars, observersSuspended, repairTimer>>

\* The outstanding run closure that waits at a stage, the older first
\* (0: none does).
SlotAt(stage) ==
  IF pending = stage THEN 1 ELSE IF pending2 = stage THEN 2 ELSE 0

\* The closure of a slot has been called: the slot is free.
Leave(slot) ==
  /\ pending' = IF slot = 1 THEN pending2 ELSE pending
  /\ pending2' = "none"

\* The flag scheduled when the run closure is left: the closure clears it
\* in its first statement, before the pass that may throw.
ScheduledAfterRunMutantClearedLast(threw) == threw
ScheduledAfterRun(threw) == FALSE

\* The run closure of scheduleEnsure.
Run(slot) ==
  /\ scheduled' = ScheduledAfterRun(FALSE)
  /\ Leave(slot)
  /\ Pass(RunRelabelWrites)
  /\ UNCHANGED <<sinceObserverRun, repairTimer>>

\* The requestAnimationFrame callback: hand run to requestIdleCallback where
\* the window has it, else call it.
AnimationFrame ==
  /\ records = {}
  /\ SlotAt("frame") # 0
  /\ \E hasIdle \in BOOLEAN :
       IF hasIdle
         THEN /\ pending' = IF SlotAt("frame") = 1 THEN "idle" ELSE pending
              /\ pending2' = IF SlotAt("frame") = 2 THEN "idle" ELSE pending2
              /\ effects' = NoEffects
              /\ UNCHANGED <<pureVars, bootVars, prefVars, docVars, uiVars, observersSuspended,
                             sinceObserverRun, scheduled, repairTimer,
                             records, dirty>>
         ELSE Run(SlotAt("frame"))

\* requestIdleCallback(run, { timeout: 1500 }): a timeout was asked for.
IdleTimeoutSetMutantNoTimeout == FALSE
IdleTimeoutSet == TRUE

\* The timeout of an idle request expires: its callback is due whether or
\* not the browser is idle.
IdleTimeout ==
  /\ records = {}
  /\ SlotAt("idle") # 0
  /\ IdleTimeoutSet
  /\ pending' = IF SlotAt("idle") = 1 THEN "due" ELSE pending
  /\ pending2' = IF SlotAt("idle") = 2 THEN "due" ELSE pending2
  /\ effects' = NoEffects
  /\ UNCHANGED <<pureVars, bootVars, prefVars, docVars, uiVars,
                 observersSuspended, sinceObserverRun, scheduled,
                 repairTimer, records, dirty>>

\* The idle request whose callback the browser may call now: one that is
\* due, or in an idle period the oldest one (0: none).
IdleSlot ==
  IF SlotAt("due") # 0 THEN SlotAt("due")
  ELSE IF busy THEN 0 ELSE SlotAt("idle")

\* The requestIdleCallback callback.
IdleCallback ==
  /\ records = {}
  /\ IdleSlot # 0
  /\ Run(IdleSlot)

\* The page starts or stops keeping the main thread busy.
HostBusy ==
  /\ busy' = ~busy
  /\ effects' = NoEffects
  /\ UNCHANGED <<pureVars, prefVars, docVars, uiVars, loopVars, records,
                 dirty, observing, initFlag, initCount, lsDisable,
                 urlDisable, storageThrows, trigger>>

\* Whether the interval is cleared after a pass: the list exists.
RepairStopsMutantNever(listN) == FALSE
RepairStops(listN) == listN > 0

\* One firing of the repair interval.
RepairTick ==
  /\ records = {}
  /\ repairTimer = "set"
  /\ ensureFloatingUI
  /\ repairTimer' = IF RepairStops(nList') THEN "null" ELSE "set"
  /\ UNCHANGED <<sinceObserverRun, scheduled, pending, pending2>>

(***************************************************************************)
(* A reconcile pass that throws inside the try block of ensureFloatingUI.  *)
(***************************************************************************)

\* The step of the try block that throws: finding or creating the root,
\* the controls, the list, or the relabelling at its end.
PassStages == {"root", "controls", "list", "relabel"}

\* The writes made before the throw.
Done(stage, what) ==
  \/ what = "style"
  \/ what \in {"root", "collapsed"} /\ stage # "root"
  \/ what = "controls" /\ stage \in {"list", "relabel"}
  \/ what = "list" /\ stage = "relabel"

\* ensureFloatingUI up to the throw, and its finally block.
PassThrows(stage) ==
  /\ nStyle' = CreateIfMissing(nStyle)
  /\ nRoot' = IF Done(stage, "root") THEN CreateIfMissing(nRoot) ELSE nRoot
  /\ nControls' = IF Done(stage, "controls") THEN CreateIfMissing(nControls)
                  ELSE nControls
  /\ nList' = IF Done(stage, "list") THEN CreateIfMissing(nList) ELSE nList
  /\ IF Done(stage, "list")
       THEN /\ rows' = BuildRows(getMessageTuples(doc))
            /\ placeholder' = (UserIndexes(getMessageTuples(doc)) = <<>>)
            /\ ApplyControlsState(rows', nRoot', nControls')
       ELSE UNCHANGED <<rows, placeholder, allDisabled, noneDisabled,
                        exportDisabled>>
  /\ collapsed' = IF Done(stage, "root")
                    THEN RootCollapsed(nRoot, collapsed, lsCollapsed)
                  ELSE collapsed
  /\ lsCollapsed' = IF Done(stage, "root") /\ nRoot = 0
                      THEN SetItem(lsCollapsed, collapsed')
                    ELSE lsCollapsed
  /\ toggleLabel' = IF Done(stage, "controls") THEN ToggleLabel(collapsed')
                    ELSE toggleLabel
  /\ listDisplay' = IF Done(stage, "list") /\ nList = 0
                      THEN ListDisplay(collapsed')
                    ELSE listDisplay
  /\ observersSuspended' = FlagAfterPass(TRUE)
  /\ records' = Queue({r \in PassRecords :
                         \/ r.target = "body" /\ Done(stage, "root")
                         \/ r.target = "root" /\ Done(stage, "controls")
                         \/ r.target = "list" /\ Done(stage, "list")})
  /\ dirty' = FALSE
  /\ effects' = [NoEffects EXCEPT
                   !.writes = {w \in PassWrites : Done(stage, w.what)}]
  /\ UNCHANGED <<pureVars, bootVars, exportFormat, lsFormat, doc>>

\* The run closure when ensureFloatingUI throws: the exception leaves the
\* callback.
RunThrows(stage) ==
  /\ records = {}
  /\ pending # "none"
  /\ scheduled' = ScheduledAfterRun(TRUE)
  /\ Leave(1)
  /\ PassThrows(stage)
  /\ UNCHANGED <<sinceObserverRun, repairTimer>>

\* The repair interval's callback when ensureFloatingUI throws: its catch
\* block swallows the exception and the interval is not cleared.
RepairTickThrows(stage) ==
  /\ records = {}
  /\ repairTimer = "set"
  /\ PassThrows(stage)
  /\ UNCHANGED <<sinceObserverRun, scheduled, pending, pending2, repairTimer>>

(***************************************************************************)
(* Startup: the singleton and kill-switch IIFE, and init().                *)
(***************************************************************************)

\* The kill switch as the IIFE computes it.  Both tests sit in one try
\* block: when localStorage throws, the catch leaves the switch off.
KillSwitch ==
  IF GetItem(lsDisable) = "throws" THEN FALSE
  ELSE GetItem(lsDisable) = "1" \/ urlDisable

\* if (w.__chatworthy_init__) return;
AlreadyInitMutantNever(w) == FALSE
AlreadyInit(w) == initFlag[w]

\* if (window.top !== window) return;
NestedContext(w) == w # "top"

\* The content script is loaded into window w: the IIFE and, behind its
\* guards, init() with startObserving, scheduleEnsure and startRepairLoop.
\* Where the document is still loading, init() waits for DOMContentLoaded
\* and runs after the module's initialisers; else its synchronous part
\* runs before them and the initialiser of scheduled (line 808) overwrites
\* the flag while the frame stays requested.
LoadScript(w) ==
  /\ records = {}
  /\ effects' = NoEffects
  /\ IF KillSwitch \/ AlreadyInit(w)
       THEN UNCHANGED <<initFlag, initCount, observing, scheduled, pending,
                        repairTimer, exportFormat>>
       ELSE /\ initFlag' = [initFlag EXCEPT ![w] = TRUE]
            /\ IF NestedContext(w)
                 THEN UNCHANGED <<initCount, observing, scheduled, pending,
                                  repairTimer, exportFormat>>
                 ELSE /\ initCount' = [initCount EXCEPT ![w] = @ + 1]
                      /\ observing' = TRUE
                      /\ \E loading \in BOOLEAN : scheduled' = loading
                      /\ pending' = "frame"
                      /\ repairTimer' = "set"
                      /\ exportFormat' = getInitialExportFormat(lsFormat)
  /\ UNCHANGED <<pureVars, docVars, uiVars, observersSuspended, pending2,
                 sinceObserverRun, records, dirty, lsDisable, urlDisable,
                 storageThrows, busy, trigger, collapsed, lsCollapsed, lsFormat,
                 listDisplay, toggleLabel>>

\* The tab is reloaded or the conversation is opened again later: the
\* document, the script's module state and its callbacks are gone, while
\* what localStorage holds, whether it can be reached, and the address
\* stay. The script is then loaded afresh.
Reload ==
  /\ records = {}
  /\ initCount["top"] > 0
  /\ doc' = <<>>
  /\ nStyle' = 0
  /\ nRoot' = 0
  /\ nControls' = 0
  /\ nList' = 0
  /\ rows' = <<>>
  /\ placeholder' = FALSE
  /\ allDisabled' = FALSE
  /\ noneDisabled' = FALSE
  /\ exportDisabled' = FALSE
  /\ observersSuspended' = FALSE
  /\ sinceObserverRun' = 0
  /\ scheduled' = FALSE
  /\ pending' = "none"
  /\ pending2' = "none"
  /\ repairTimer' = "null"
  /\ effects' = NoEffects
  /\ dirty' = FALSE
  /\ observing' = FALSE
  /\ initFlag' = [w \in Windows |-> FALSE]
  /\ initCount' = [w \in Windows |-> 0]
  /\ collapsed' = "none"
  /\ listDisplay' = "absent"
  /\ toggleLabel' = "absent"
  /\ exportFormat' = "markdown_html"
  /\ UNCHANGED <<pureVars, records, lsDisable, urlDisable, storageThrows, busy,
                 trigger, lsCollapsed, lsFormat>>

(***************************************************************************)
(* The user's actions on the control surface.                              *)
(***************************************************************************)

\* The change handler of a row's checkbox.
ToggleCheckbox(i) ==
  /\ records = {}
  /\ nList > 0
  /\ i \in 1..Len(rows)
  /\ rows' = [rows EXCEPT ![i].checked = ~rows[i].checked]
  /\ ApplyControlsState(rows', nRoot, nControls)
  /\ effects' = NoEffects
  /\ UNCHANGED <<pureVars, bootVars, prefVars, docVars, nStyle, nRoot, nControls, nList, placeholder,
                 loopVars, records, dirty>>

SetAll(rws, v) == [i \in 1..Len(rws) |-> [rws[i] EXCEPT !.checked = v]]

\* btnAll.onclick
ClickAll ==
  /\ records = {}
  /\ nControls > 0
  /\ ~allDisabled
  /\ rows' = SetAll(rows, TRUE)
  /\ ApplyControlsState(rows', nRoot, nControls)
  /\ effects' = NoEffects
  /\ UNCHANGED <<pureVars, bootVars, prefVars, docVars, nStyle, nRoot, nControls, nList, placeholder,
                 loopVars, records, dirty>>

\* btnNone.onclick
ClickNone ==
  /\ records = {}
  /\ nControls > 0
  /\ ~noneDisabled
  /\ rows' = SetAll(rows, FALSE)
  /\ ApplyControlsState(rows', nRoot, nControls)
  /\ effects' = NoEffects
  /\ UNCHANGED <<pureVars, bootVars, prefVars, docVars, nStyle, nRoot, nControls, nList, placeholder,
                 loopVars, records, dirty>>

\* What exportBtn.onclick shows and saves for a payload.
ExportOutcomeMutantNoEmptyCheck(payload) ==
  IF payload.threw
    THEN [alert |-> "failed", saved |-> FALSE, turns |-> <<>>,
          writes |-> {}]
  ELSE [alert |-> "none", saved |-> TRUE, turns |-> payload.turns,
        writes |-> {}]
ExportOutcomeMutantNoCatch(payload) ==
  IF payload.threw
    THEN [alert |-> "none", saved |-> FALSE, turns |-> <<>>,
          writes |-> {}]
  ELSE IF Len(payload.turns) = 0
    THEN [alert |-> "select", saved |-> FALSE, turns |-> <<>>,
          writes |-> {}]
  ELSE [alert |-> "none", saved |-> TRUE, turns |-> payload.turns,
        writes |-> {}]
ExportOutcome(payload) ==
  IF payload.threw
    THEN [alert |-> "failed", saved |-> FALSE, turns |-> <<>>,
          writes |-> {}]
  ELSE IF Len(payload.turns) = 0
    THEN [alert |-> "select", saved |-> FALSE, turns |-> <<>>,
          writes |-> {}]
  ELSE [alert |-> "none", saved |-> TRUE, turns |-> payload.turns,
        writes |-> {}]

\* exportBtn.onclick; downloadExport appends the link to <body> and removes
\* it again.
ClickExport ==
  /\ records = {}
  /\ nControls > 0
  /\ ~exportDisabled
  /\ effects' = ExportOutcome(buildSelectedPayload(doc, rows, nRoot))
  /\ records' = IF effects'.saved THEN Queue({Rec("body", "tool")}) ELSE {}
  /\ UNCHANGED <<pureVars, bootVars, prefVars, docVars, uiVars, loopVars, dirty>>

\* Where the try block of exportBtn.onclick raises after the payload.
ExportStages == {"render", "save"}

\* exportBtn.onclick when buildExportFromTurns or downloadExport throws:
\* the catch block reports the failure. downloadExport may throw before or
\* after it has appended the link to <body>; a link appended is not removed.
ClickExportThrows(stage) ==
  /\ records = {}
  /\ nControls > 0
  /\ ~exportDisabled
  /\ LET payload == buildSelectedPayload(doc, rows, nRoot)
     IN /\ ~payload.threw
        /\ Len(payload.turns) > 0
  /\ effects' = ExportOutcome([threw |-> TRUE, turns |-> <<>>])
  /\ \E appended \in BOOLEAN :
       /\ appended => stage = "save"
       /\ records' = IF appended THEN Queue({Rec("body", "tool")}) ELSE {}
  /\ UNCHANGED <<pureVars, bootVars, prefVars, docVars, uiVars, loopVars, dirty>>

\* toggleBtn.onclick with setCollapsed: the button's text is replaced, a
\* child-list change inside the root.
ToggleCollapse ==
  /\ records = {}
  /\ nControls > 0
  /\ LET v == ~(collapsed # "0")
     IN /\ lsCollapsed' = SetItem(lsCollapsed, CollapsedString(v))
        /\ collapsed' = IF nRoot > 0 THEN CollapsedString(v) ELSE collapsed
        /\ listDisplay' = IF nList > 0 THEN ListDisplay(CollapsedString(v))
                          ELSE listDisplay
        /\ toggleLabel' = ToggleLabel(CollapsedString(v))
  /\ records' = Queue({Rec("root", "tool")})
  /\ effects' = NoEffects
  /\ UNCHANGED <<pureVars, bootVars, exportFormat, lsFormat, docVars, uiVars, loopVars,
                 dirty>>

\* The change handler of the Pure MD checkbox, with setExportFormat.
TogglePureMd ==
  /\ records = {}
  /\ nControls > 0
  /\ exportFormat' = IF exportFormat = "markdown_pure" THEN "markdown_html"
                     ELSE "markdown_pure"
  /\ lsFormat' = SetItem(lsFormat, exportFormat')
  /\ effects' = NoEffects
  /\ UNCHANGED <<pureVars, bootVars, collapsed, lsCollapsed, listDisplay,
                 toggleLabel, docVars, uiVars, loopVars,
                 records, dirty>>

(***************************************************************************)
(* An export: its inputs on the page, the format, the export itself.       *)
(***************************************************************************)

\* The host writes one more character of the chat title.
HostTitleChar(c) ==
  /\ Len(pageTitle) < MaxTitleLen
  /\ pageTitle' = Append(pageTitle, c)
  /\ ran' = FALSE
  /\ UNCHANGED <<projectName, exportMeta, frontMatter, classifyVars,
                 dedupVars, pageVars, renderVars>>

\* The host shows the chat inside a project, or outside one.
HostProject(name) ==
  /\ projectName # name
  /\ projectName' = name
  /\ ran' = FALSE
  /\ UNCHANGED <<pageTitle, exportMeta, frontMatter, classifyVars,
                 dedupVars, pageVars, renderVars>>

\* setExportFormat
SetExportFormat(fmt) ==
  /\ exportFormat # fmt
  /\ exportFormat' = fmt
  /\ lsFormat' = SetItem(lsFormat, fmt)
  /\ ran' = FALSE
  /\ UNCHANGED <<exportVars, classifyVars, dedupVars, renderVars, docVars, uiVars,
                 loopVars, bootVars, records, effects, dirty, collapsed,
                 lsCollapsed, listDisplay, toggleLabel>>

\* buildExportFromTurns on n turns.
BuildExport(n) ==
  /\ exportMeta' = ExportMetadata(ChatTitle(pageTitle), projectName, n)
  /\ frontMatter' = buildMarkdownExportByFormat(exportFormat, exportMeta')
  /\ ran' = TRUE
  /\ UNCHANGED <<pageTitle, projectName, classifyVars, dedupVars, pageVars,
                 renderVars>>

\* The caller collects one more turn.
RenderAddTurn(role, text) ==
  /\ Len(renderIn.turns) < MaxRenderTurns
  /\ renderIn' = [renderIn EXCEPT
                    !.turns = Append(@, [role |-> role, text |-> text])]
  /\ rendered' = <<>>
  /\ ran' = FALSE
  /\ UNCHANGED <<classifyVars, dedupVars, exportVars, pageVars>>

\* The caller fills in the metadata: the chat's title and the values of
\* this export.
RenderSetMeta(chatTitle, volatile) ==
  /\ renderIn' = [renderIn EXCEPT !.chatTitle = chatTitle,
                                  !.volatile = volatile]
  /\ renderIn' # renderIn
  /\ rendered' = <<>>
  /\ ran' = FALSE
  /\ UNCHANGED <<classifyVars, dedupVars, exportVars, pageVars>>

\* The caller sets the title option.
RenderSetTitle(title) ==
  /\ renderIn.title # title
  /\ renderIn' = [renderIn EXCEPT !.title = title]
  /\ rendered' = <<>>
  /\ ran' = FALSE
  /\ UNCHANGED <<classifyVars, dedupVars, exportVars, pageVars>>

\* buildMarkdownExportByFormat(exportFormat, meta, turns, { title })
RenderDocument ==
  /\ rendered' = buildMarkdownExport(exportFormat, RenderMeta(renderIn),
                                     renderIn.turns,
                                     [title |-> renderIn.title])
  /\ ran' = TRUE
  /\ UNCHANGED <<renderIn, classifyVars, dedupVars, exportVars, pageVars>>

(***************************************************************************)
(* The host page and the clock.                                            *)
(***************************************************************************)

\* The host renders one more turn.
HostAppend(role, max) ==
  /\ records = {}
  /\ Len(doc) < max
  /\ doc' = Append(doc, [role |-> role, labelled |-> FALSE])
  /\ records' = Queue({Rec("thread", "host")})
  /\ effects' = NoEffects
  /\ UNCHANGED <<pureVars, bootVars, prefVars, uiVars, loopVars, dirty>>

\* The host renders again in one task: it appends a turn and, in the same
\* task, drops the list from the tool's root.  The observer is handed both
\* records in one batch.
HostRerender(role, max) ==
  /\ records = {}
  /\ Len(doc) < max
  /\ nList > 0
  /\ doc' = Append(doc, [role |-> role, labelled |-> FALSE])
  /\ nList' = 0
  /\ rows' = <<>>
  /\ placeholder' = FALSE
  /\ listDisplay' = "absent"
  /\ records' = Queue({Rec("thread", "host"), Rec("root", "host")})
  /\ effects' = NoEffects
  /\ UNCHANGED <<pureVars, bootVars, collapsed, exportFormat, lsCollapsed,
                 lsFormat, toggleLabel, nStyle, nRoot, nControls,
                 allDisabled, noneDisabled, exportDisabled, loopVars, dirty>>

\* The rows once the turn elements they hold have moved by n places in the
\* document; an element that was first and is removed is gone.
Moved(rws, n) ==
  [i \in 1..Len(rws) |->
     [rws[i] EXCEPT !.el = IF @ < 0 \/ @ + n < 0 THEN -1 ELSE @ + n]]

\* The host drops the first turn (virtualised scrolling).
HostRemoveFirst ==
  /\ records = {}
  /\ doc # <<>>
  /\ doc' = Tail(doc)
  /\ rows' = Moved(rows, -1)
  /\ records' = Queue({Rec("thread", "host")})
  /\ effects' = NoEffects
  /\ UNCHANGED <<pureVars, bootVars, prefVars, nStyle, nRoot, nControls,
                 nList, placeholder, allDisabled, noneDisabled,
                 exportDisabled, loopVars, dirty>>

\* The host inserts a turn ahead of the others (earlier turns are loaded).
HostPrepend(role, max) ==
  /\ records = {}
  /\ Len(doc) < max
  /\ doc' = <<[role |-> role, labelled |-> FALSE]>> \o doc
  /\ rows' = Moved(rows, 1)
  /\ records' = Queue({Rec("thread", "host")})
  /\ effects' = NoEffects
  /\ UNCHANGED <<pureVars, bootVars, prefVars, nStyle, nRoot, nControls,
                 nList, placeholder, allDisabled, noneDisabled,
                 exportDisabled, loopVars, dirty>>

\* The host removes the root, and with it the controls and the list.
HostRemoveRoot ==
  /\ records = {}
  /\ nRoot > 0
  /\ nRoot' = 0
  /\ nControls' = 0
  /\ nList' = 0
  /\ rows' = <<>>
  /\ placeholder' = FALSE
  /\ allDisabled' = FALSE
  /\ noneDisabled' = FALSE
  /\ exportDisabled' = FALSE
  /\ collapsed' = "none"
  /\ listDisplay' = "absent"
  /\ toggleLabel' = "absent"
  /\ records' = Queue({Rec("body", "host")})
  /\ effects' = NoEffects
  /\ UNCHANGED <<pureVars, bootVars, exportFormat, lsCollapsed, lsFormat, docVars,
                 nStyle, loopVars, dirty>>

\* The host removes the controls from the root.
HostRemoveControls ==
  /\ records = {}
  /\ nControls > 0
  /\ nControls' = 0
  /\ allDisabled' = FALSE
  /\ noneDisabled' = FALSE
  /\ exportDisabled' = FALSE
  /\ toggleLabel' = "absent"
  /\ records' = Queue({Rec("root", "host")})
  /\ effects' = NoEffects
  /\ UNCHANGED <<pureVars, bootVars, collapsed, exportFormat, lsCollapsed,
                 lsFormat, listDisplay, docVars, nStyle, nRoot, nList, rows,
                 placeholder, loopVars, dirty>>

\* The host removes the list from the root.
HostRemoveList ==
  /\ records = {}
  /\ nList > 0
  /\ nList' = 0
  /\ rows' = <<>>
  /\ placeholder' = FALSE
  /\ listDisplay' = "absent"
  /\ records' = Queue({Rec("root", "host")})
  /\ effects' = NoEffects
  /\ UNCHANGED <<pureVars, bootVars, collapsed, exportFormat, lsCollapsed,
                 lsFormat, toggleLabel, docVars, nStyle, nRoot, nControls,
                 allDisabled, noneDisabled, exportDisabled, loopVars, dirty>>

\* A script of the page rewrites the data-uindex attribute of the last
\* checkbox: a repeated index, a fraction, or text that is no number.
TamperStrings == {"0", "0.5", "x"}
HostTamperRow(s) ==
  /\ records = {}
  /\ nList > 0
  /\ rows # <<>>
  /\ rows[Len(rows)].uindex # s
  /\ rows' = [rows EXCEPT ![Len(rows)].uindex = s]
  /\ effects' = NoEffects
  /\ UNCHANGED <<pureVars, bootVars, prefVars, docVars, nStyle, nRoot, nControls, nList, placeholder,
                 allDisabled, noneDisabled, exportDisabled, loopVars,
                 records, dirty>>

\* The formats a host command asks for.
TriggerFormats == {"md", "json"}

\* The keyboard command of background.ts or a button of the popup: the
\* active tab is looked up and the trigger is sent to it.
HostCommand(format) ==
  /\ trigger = "none"
  /\ trigger' = format
  /\ effects' = NoEffects
  /\ UNCHANGED <<pureVars, prefVars, docVars, uiVars, loopVars, records,
                 dirty, observing, initFlag, initCount, lsDisable,
                 urlDisable, storageThrows, busy>>

\* The trigger reaches the tab.  The content script registers no
\* chrome.runtime.onMessage listener, so nothing in the tab receives it:
\* sendMessage rejects in the sender and the page is left as it was.
DeliverTrigger ==
  /\ trigger # "none"
  /\ trigger' = "none"
  /\ effects' = NoEffects
  /\ UNCHANGED <<pureVars, prefVars, docVars, uiVars, loopVars, records,
                 dirty, observing, initFlag, initCount, lsDisable,
                 urlDisable, storageThrows, busy>>

\* Time passes.  Beyond the throttle interval the program cannot tell how
\* long ago the observer last reacted.  The frame, idle and interval
\* callbacks are not tied to this clock: each may fire at any point of the
\* throttle window.
Tick ==
  /\ records = {}
  /\ sinceObserverRun < OBSERVER_THROTTLE_MS
  /\ sinceObserverRun' = Min(sinceObserverRun + TickMs, OBSERVER_THROTTLE_MS)
  /\ effects' = NoEffects
  /\ UNCHANGED <<pureVars, bootVars, prefVars, docVars, uiVars, observersSuspended, scheduled, pending,
                 pending2, repairTimer, records, dirty>>

(***************************************************************************)
(* Specifications.                                                         *)
(***************************************************************************)

\* The state when init() has returned: the observer is attached, the first
\* reaction is scheduled and the repair interval runs.
Init ==
  /\ doc = <<>>
  /\ nStyle = 0
  /\ nRoot = 0
  /\ nControls = 0
  /\ nList = 0
  /\ rows = <<>>
  /\ placeholder = FALSE
  /\ allDisabled = FALSE
  /\ noneDisabled = FALSE
  /\ exportDisabled = FALSE
  /\ observersSuspended = FALSE
  /\ sinceObserverRun = 0
  /\ scheduled = TRUE
  /\ pending = "frame"
  /\ pending2 = "none"
  /\ repairTimer = "set"
  /\ records = {}
  /\ effects = NoEffects
  /\ dirty = FALSE
  /\ observing = TRUE
  /\ initFlag = [w \in Windows |-> w = "top"]
  /\ initCount = [w \in Windows |-> IF w = "top" THEN 1 ELSE 0]
  /\ lsDisable = "null"
  /\ urlDisable = FALSE
  /\ storageThrows = FALSE
  /\ busy = FALSE
  /\ trigger = "none"
  /\ collapsed = "none"
  /\ exportFormat = getInitialExportFormat("null")
  /\ lsCollapsed = "null"
  /\ lsFormat = "null"
  /\ listDisplay = "absent"
  /\ toggleLabel = "absent"
  /\ PureIdle

\* The loop's environment: a short conversation, a host that also removes
\* parts of the control surface, and a clock.
Next ==
  \/ ObserverCallback
  \/ AnimationFrame
  \/ IdleCallback
  \/ RepairTick
  \/ \E i \in 1..MaxLoopTurns : ToggleCheckbox(i)
  \/ ClickAll
  \/ ClickNone
  \/ ClickExport
  \/ \E r \in Roles : HostAppend(r, MaxLoopTurns)
  \/ HostRemoveFirst
  \/ HostRemoveRoot
  \/ HostRemoveControls
  \/ HostRemoveList
  \/ Tick

Spec == Init /\ [][Next]_vars

\* The loop's environment with passes and exports that may throw, on a
\* page that rewrites data-uindex to a fraction.
FaultNext ==
  \/ Next
  \/ HostTamperRow("0.5")
  \/ \E stage \in PassStages : RunThrows(stage)
  \/ \E stage \in PassStages : RepairTickThrows(stage)
  \/ \E stage \in ExportStages : ClickExportThrows(stage)

FaultSpec == Init /\ [][FaultNext]_vars

\* The loop's environment on a page that also inserts turns ahead of the
\* ones rendered.
ShiftNext ==
  \/ Next
  \/ \E r \in Roles : HostPrepend(r, MaxLoopTurns)

ShiftSpec == Init /\ [][ShiftNext]_vars

\* The loop's environment on a page that also changes the transcript and
\* the tool's subtree in one task.
MixedNext ==
  \/ Next
  \/ \E r \in Roles : HostRerender(r, MaxLoopTurns)

MixedSpec == Init /\ [][MixedNext]_vars

\* The loop's environment on a page that may keep the main thread busy,
\* so that idle periods are rare or absent; the timeout of an idle request
\* expires.  The browser runs every callback that is ready.
StarveNext ==
  \/ ObserverCallback
  \/ AnimationFrame
  \/ IdleTimeout
  \/ IdleCallback
  \/ RepairTick
  \/ \E r \in Roles : HostAppend(r, MaxLoopTurns)
  \/ HostRemoveRoot
  \/ HostRemoveList
  \/ HostBusy
  \/ Tick

StarveSpec ==
  /\ Init /\ [][StarveNext]_vars
  /\ SF_vars(ObserverCallback)
  /\ SF_vars(AnimationFrame)
  /\ SF_vars(IdleTimeout)
  /\ SF_vars(IdleCallback)

\* The browser runs every queued callback and the clock advances.
FairSpec ==
  /\ Init /\ [][Next]_vars
  /\ SF_vars(ObserverCallback)
  /\ SF_vars(AnimationFrame)
  /\ SF_vars(IdleCallback)
  /\ SF_vars(RepairTick)
  /\ WF_vars(Tick)

\* The loop's environment with the extension's commands; the browser
\* delivers every message sent.
CommandNext ==
  \/ Next
  \/ \E format \in TriggerFormats : HostCommand(format)
  \/ DeliverTrigger

CommandSpec ==
  /\ Init /\ [][CommandNext]_vars
  /\ SF_vars(ObserverCallback)
  /\ SF_vars(AnimationFrame)
  /\ SF_vars(IdleCallback)
  /\ SF_vars(RepairTick)
  /\ WF_vars(Tick)
  /\ WF_vars(DeliverTrigger)

\* The state of a tab before the content script is loaded: what the
\* profile's storage holds and what the address carries is the
\* environment's choice. Of the two preferences the storage holds nothing
\* or a value the script never wrote ("x"); the values the script writes
\* get there through the user's choices of an earlier load.
BootInit ==
  /\ doc = <<>>
  /\ nStyle = 0
  /\ nRoot = 0
  /\ nControls = 0
  /\ nList = 0
  /\ rows = <<>>
  /\ placeholder = FALSE
  /\ allDisabled = FALSE
  /\ noneDisabled = FALSE
  /\ exportDisabled = FALSE
  /\ observersSuspended = FALSE
  /\ sinceObserverRun = 0
  /\ scheduled = FALSE
  /\ pending = "none"
  /\ pending2 = "none"
  /\ repairTimer = "null"
  /\ records = {}
  /\ effects = NoEffects
  /\ dirty = FALSE
  /\ observing = FALSE
  /\ initFlag = [w \in Windows |-> FALSE]
  /\ initCount = [w \in Windows |-> 0]
  /\ lsDisable \in {"null", "1"}
  /\ urlDisable \in BOOLEAN
  /\ storageThrows \in BOOLEAN
  /\ busy = FALSE
  /\ trigger = "none"
  /\ collapsed = "none"
  /\ exportFormat = "markdown_html"
  /\ lsCollapsed \in {"null", "x"}
  /\ lsFormat \in {"null", "x"}
  /\ listDisplay = "absent"
  /\ toggleLabel = "absent"
  /\ PureIdle

\* The session's environment: the script is loaded any number of times
\* into either window, the user toggles the panel and the export mode, the
\* host changes a short conversation and removes parts of the panel.
BootNext ==
  \/ \E w \in Windows : LoadScript(w)
  \/ ObserverCallback
  \/ AnimationFrame
  \/ IdleCallback
  \/ RepairTick
  \/ ToggleCollapse
  \/ TogglePureMd
  \/ \E r \in Roles : HostAppend(r, MaxBootTurns)
  \/ HostRemoveRoot
  \/ HostRemoveControls
  \/ HostRemoveList
  \/ Reload
  \/ Tick

BootSpec == BootInit /\ [][BootNext]_vars

\* The page before the script is loaded, for the functions checked on
\* their own.
PageIdle ==
  /\ doc = <<>>
  /\ nStyle = 0
  /\ nRoot = 0
  /\ nControls = 0
  /\ nList = 0
  /\ rows = <<>>
  /\ placeholder = FALSE
  /\ allDisabled = FALSE
  /\ noneDisabled = FALSE
  /\ exportDisabled = FALSE
  /\ observersSuspended = FALSE
  /\ sinceObserverRun = 0
  /\ scheduled = FALSE
  /\ pending = "none"
  /\ pending2 = "none"
  /\ repairTimer = "null"
  /\ records = {}
  /\ effects = NoEffects
  /\ dirty = FALSE
  /\ observing = FALSE
  /\ initFlag = [w \in Windows |-> FALSE]
  /\ initCount = [w \in Windows |-> 0]
  /\ lsDisable = "null"
  /\ urlDisable = FALSE
  /\ storageThrows = FALSE
  /\ busy = FALSE
  /\ trigger = "none"
  /\ collapsed = "none"
  /\ exportFormat = "markdown_html"
  /\ lsCollapsed = "null"
  /\ lsFormat = "null"
  /\ listDisplay = "absent"
  /\ toggleLabel = "absent"

\* The classifier's environment: the host renders a document element by
\* element, and the classifier and the relabelling run on it at any point.
ClassifyInit ==
  /\ PageIdle
  /\ PureIdle

ClassifyNext ==
  \/ \E k \in Kinds : \E p \in 0..MaxNodes : HostAddElement(p, k)
  \/ ClassifyTree
  \/ RelabelTree

ClassifySpec == ClassifyInit /\ [][ClassifyNext]_vars

\* The environment of extractTurns: the host renders turns, the function
\* runs at any point.
DedupNext ==
  \/ \E r \in Roles : \E h \in TextHeads : \E x \in TextRests :
       HostAddTurn(r, h, x)
  \/ ExtractTurns

DedupSpec == ClassifyInit /\ [][DedupNext]_vars

\* The exporters' environment: the host sets the title and the project,
\* the user picks the format and exports.
ExportNext ==
  \/ \E c \in Chars : HostTitleChar(c)
  \/ \E name \in {<<>>, <<"a">>} : HostProject(name)
  \/ \E fmt \in ExportFormats : SetExportFormat(fmt)
  \/ \E n \in 1..2 : BuildExport(n)

ExportSpec == ClassifyInit /\ [][ExportNext]_vars

\* The callers of the exporters' entry point: the content script with the
\* page's title, the golden check with a fixture's.
RenderNext ==
  \/ \E r \in Roles : \E text \in TurnTexts : RenderAddTurn(r, text)
  \/ \E t \in Titles : \E v \in Stamps : RenderSetMeta(t, v)
  \/ \E t \in Titles : RenderSetTitle(t)
  \/ \E fmt \in ExportFormats : SetExportFormat(fmt)
  \/ RenderDocument

RenderSpec == ClassifyInit /\ [][RenderNext]_vars

\* The selection's environment: longer conversations and a page that
\* rewrites data-uindex, within the throttle interval of the page load.
SelNext ==
  \/ ObserverCallback
  \/ AnimationFrame
  \/ IdleCallback
  \/ RepairTick
  \/ \E i \in 1..MaxTurns : ToggleCheckbox(i)
  \/ ClickAll
  \/ ClickNone
  \/ ClickExport
  \/ \E r \in Roles : HostAppend(r, MaxTurns)
  \/ HostRemoveFirst
  \/ \E s \in TamperStrings : HostTamperRow(s)

SelSpec == Init /\ [][SelNext]_vars

TypeOK ==
  /\ nRoot \in 0..1 /\ nControls \in 0..1 /\ nList \in 0..1
  /\ scheduled \in BOOLEAN
  /\ pending \in {"none", "frame", "idle", "due"}
  /\ pending2 \in {"none", "frame", "idle", "due"}
  /\ busy \in BOOLEAN
  /\ repairTimer \in {"set", "null"}
  /\ listDisplay \in {"absent", "none", "block"}
  /\ toggleLabel \in {"absent", "Show List", "Hide List"}

(***************************************************************************)
(* Properties of the selected payload (SelSpec).                           *)
(***************************************************************************)

\* An export click has just run: it always alerts or saves.
ExportRan == effects.alert # "none" \/ effects.saved

\* The numbers of the checked boxes.
CheckedValues ==
  IF nRoot = 0 THEN {}
  ELSE {NumberOf(rows[i].uindex) : i \in {j \in 1..Len(rows) : rows[j].checked}}

\* V: the checked indexes inside the turn list that refer to user turns.
ValidSelection ==
  {v \in 0..(Len(doc) - 1) : Num(v) \in CheckedValues /\ doc[v + 1].role = "user"}

\* Every checked value is an index (an integer) or no number at all.
CheckedAreIndexes == \A v \in CheckedValues : IsFinite(v) => IsInteger(v)

SetMin(S) == CHOOSE x \in S : \A y \in S : x <= y

\* The next entry of V after v, or the turn count.
NextSelected ==
  [v \in 0..Len(doc) |->
    IF \E w \in ValidSelection : w > v
      THEN SetMin({w \in ValidSelection : w > v})
    ELSE Len(doc)]

\* The next user turn after v, selected or not, or the turn count.
NextUserTurn ==
  [v \in 0..Len(doc) |->
    IF \E w \in (v + 1)..(Len(doc) - 1) : doc[w + 1].role = "user"
      THEN SetMin({w \in (v + 1)..(Len(doc) - 1) : doc[w + 1].role = "user"})
    ELSE Len(doc)]

\* The turns at positions from .. to-1.
TurnsAt(from, to) ==
  [k \in 1..(to - from) |-> [pos |-> from + k - 1, role |-> doc[from + k].role]]

\* The concatenation, over the entries v of S in ascending order, of the
\* turns from v up to end[v].
RECURSIVE ConcatRanges(_, _)
ConcatRanges(S, end) ==
  IF S = {} THEN <<>>
  ELSE LET v == SetMin(S)
       IN TurnsAt(v, end[v]) \o ConcatRanges(S \ {v}, end)

C2_NoOverlapNoGap ==
  effects.saved =>
    \A i \in 1..(Len(effects.turns) - 1) :
      /\ effects.turns[i].pos < effects.turns[i + 1].pos
      /\ \/ effects.turns[i + 1].pos = effects.turns[i].pos + 1
         \/ effects.turns[i + 1].pos \in ValidSelection

\* Two boxes carry the same valid index and a later one another: the export
\* has more than one range.
C2_Witness ==
  /\ effects.saved
  /\ Cardinality(ValidSelection) >= 2
  /\ \E i, j \in 1..Len(rows) :
       i # j /\ rows[i].checked /\ rows[j].checked /\ rows[i].uindex = rows[j].uindex

\* C3: a selected user turn is exported with the turns after it only up to
\* the next user turn, selected or not.
C3_UpToNextUserTurn ==
  (ExportRan /\ CheckedAreIndexes) =>
    effects.turns = ConcatRanges(ValidSelection, NextUserTurn)

\* C4: every checked value that is no integer, not finite, outside the turn
\* list or not a user turn is dropped without an error, and the export goes
\* on with the valid indexes.
C4_InvalidDropped ==
  ExportRan =>
    /\ effects.alert # "failed"
    /\ effects.turns = ConcatRanges(ValidSelection, NextSelected)

\* A checked value is dropped: no number, outside the turn list, or the
\* index of a turn that is not a user turn.
Dropped(v) ==
  \/ ~IsFinite(v)
  \/ v.x2 < 0
  \/ v.x2 >= 2 * Len(doc)
  \/ IsInteger(v) /\ v.x2 >= 0 /\ v.x2 < 2 * Len(doc)
       /\ doc[(v.x2 \div 2) + 1].role # "user"

\* C5: an export with nothing checked, or with every checked value dropped,
\* shows the 'select at least one' guidance, saves nothing and reports no
\* failure.
C5_NothingSelected ==
  (ExportRan /\ \A v \in CheckedValues : Dropped(v)) =>
    /\ effects.alert = "select"
    /\ ~effects.saved
    /\ effects.turns = <<>>
    /\ records = {}

\* The guidance was shown although a box is checked: its index went stale.
C5_Witness ==
  /\ effects.alert = "select"
  /\ \E v \in CheckedValues : IsInteger(v) /\ v.x2 >= 0
  /\ \A v \in CheckedValues : Dropped(v)

(***************************************************************************)
(* Properties of the reconciliation loop (Spec, FairSpec).                 *)
(***************************************************************************)

\* A task that ran a reconcile pass.
PassTaken ==
  \/ IdleCallback
  \/ RepairTick
  \/ AnimationFrame /\ effects'.writes # {}

\* A selection action: a checkbox change, All or None.
SelectionTaken ==
  \/ ClickAll
  \/ ClickNone
  \/ \E i \in 1..Len(rows) : ToggleCheckbox(i)

NoRowChecked == \A i \in 1..Len(rows) : ~rows[i].checked
NoUserTurn == \A i \in 1..Len(doc) : doc[i].role # "user"

\* The Export button, where there is one, is disabled exactly when no row
\* is checked.
ExportDisabledRight == nControls > 0 => (exportDisabled <=> NoRowChecked)

\* C6: after every pass and every selection action Export is disabled
\* exactly when no row is checked; a pass over a conversation without user
\* turns leaves the placeholder, no checkbox and Export disabled.
C6_ExportDisabledIffNoneChecked ==
  [][(PassTaken \/ SelectionTaken) =>
       /\ ExportDisabledRight'
       /\ (PassTaken /\ NoUserTurn') =>
            (placeholder' /\ rows' = <<>> /\ exportDisabled')]_vars

\* One of two rows is checked and Export is enabled.
C6_Witness ==
  /\ nControls > 0
  /\ Len(rows) = 2
  /\ rows[1].checked
  /\ ~rows[2].checked
  /\ ~exportDisabled

\* C7: every relevant host mutation is eventually followed by a pass.
C7_EventuallyReconciled == dirty ~> ~dirty

\* C8: the observer never reacts to a batch that holds only the tool's own
\* writes.
C8_NoSelfReaction ==
  (records # {} /\ ObserverReacts) => \E r \in records : r.by = "host"

\* Nothing is pending and the repair interval is cleared.
Quiescent ==
  /\ records = {}
  /\ ~scheduled
  /\ pending = "none"
  /\ repairTimer = "null"

\* The steps of the loop itself, and the clock.
LoopStep == ObserverCallback \/ AnimationFrame \/ IdleCallback \/ RepairTick \/ Tick

\* A step that leaves the document tree as it is, or is the loop's own:
\* selection actions and an export that saves nothing write no node.
DocumentQuietStep ==
  \/ LoopStep
  \/ SelectionTaken
  \/ ClickExport /\ ~effects'.saved

\* C9: once the document stops changing from outside the loop, the loop
\* comes to rest for good after finitely many passes: no reaction pending,
\* repair interval cleared, no pass triggered by the loop's own writes.
C9_SelfStabilises == <>[][DocumentQuietStep]_vars => <>[]Quiescent

\* The loop is at rest with the panel built over a conversation.
C9_Witness == Quiescent /\ nList = 1 /\ doc # <<>> /\ ~dirty

\* C10: a completed pass leaves exactly one root, one controls element and
\* one list.
C10_ExactlyOneOfEach ==
  [][PassTaken => (nRoot' = 1 /\ nControls' = 1 /\ nList' = 1)]_vars

\* A pass has just rebuilt the root the host had removed: the turns carry
\* their labels from an earlier pass.
C10_Witness ==
  /\ records = {Rec("body", "tool"), Rec("root", "tool"), Rec("list", "tool")}
  /\ doc # <<>>
  /\ nRoot = 1 /\ nControls = 1 /\ nList = 1

(***************************************************************************)
(* Properties of the session: preferences and startup (BootSpec).          *)
(***************************************************************************)

\* C11, as stated: a pass leaves the collapsed flag of the root, the export
\* mode and both stored entries as they were.
C11_PassKeepsPreferences ==
  [][PassTaken =>
       /\ (collapsed # "none" => collapsed' = collapsed)
       /\ exportFormat' = exportFormat
       /\ lsFormat' = lsFormat
       /\ lsCollapsed' = lsCollapsed]_vars

\* C11, amended: a pass leaves the export mode and its stored entry as they
\* were and leaves the collapsed flag of an existing root as it was; a root
\* it creates takes the stored flag; the stored flag reads the same after
\* the pass as before, and the only write is that of a created root which
\* turns a missing or unreadable entry into '1'.
C11_PassKeepsPreferencesAsRead ==
  [][PassTaken =>
       /\ (collapsed # "none" => collapsed' = collapsed)
       /\ (collapsed = "none" =>
             collapsed' = CollapsedString(getInitialCollapsed(lsCollapsed)))
       /\ exportFormat' = exportFormat
       /\ lsFormat' = lsFormat
       /\ getInitialCollapsed(lsCollapsed') = getInitialCollapsed(lsCollapsed)
       /\ (lsCollapsed' # lsCollapsed =>
             /\ collapsed = "none"
             /\ lsCollapsed \notin {"0", "1"}
             /\ lsCollapsed' = "1")]_vars

\* A pass has just run over a root whose panel the user had expanded, with
\* storage out of reach, so that the stored flag reads collapsed.
C11_Witness ==
  /\ storageThrows
  /\ collapsed = "0"
  /\ exportFormat = "markdown_pure"
  /\ records = {Rec("list", "tool")}

\* C12: where the stored disable flag is set (and can be read) or the
\* address carries the disable parameter, the core is inert for the whole
\* session: no observer attached, no reaction scheduled, no repair interval,
\* no control surface, no init().
C12_KillSwitchInert ==
  (urlDisable \/ (lsDisable = "1" /\ ~storageThrows)) =>
    /\ ~observing
    /\ ~scheduled
    /\ pending = "none"
    /\ pending2 = "none"
    /\ repairTimer = "null"
    /\ nRoot = 0
    /\ initCount["top"] = 0

\* C13: init() runs at most once in the top-level window, however often
\* the script is loaded, and never in a nested browsing context.
C13_InitOnce == initCount["top"] <= 1 /\ initCount["nested"] = 0

\* The script was loaded into both windows; the top-level one has built its
\* panel.
C13_Witness ==
  /\ initFlag["nested"]
  /\ initCount["top"] = 1
  /\ nRoot = 1

(***************************************************************************)
(* Properties of the classifier and of the extraction (ClassifySpec).      *)
(***************************************************************************)

\* C14: the classifier, run again on a document the host has not changed
\* since the last run (the tool's tags, labels and hidden marks are there),
\* returns the same sequence of (node, role, position).
C14_ClassifierIdempotent ==
  [][(ClassifyTree /\ ran) => lastTuples' = lastTuples]_vars

\* The classifier has run on a document that carries a label and a hidden
\* mark of the tool, and its sweep has found a turn.
C14_Witness ==
  /\ ran
  /\ \E i \in 1..Len(tree) : tree[i].label # "none"
  /\ \E i \in 1..Len(tree) : tree[i].hidden
  /\ \E k \in 1..Len(lastTuples) : tree[lastTuples[k].el].kind \in {"markdown", "section"}

\* C15: the classifier returns the turns in document order, each node once:
\* position i is before position j exactly when node i precedes node j.
C15_DocumentOrder ==
  ran => \A i, j \in 1..Len(lastTuples) :
           (i < j) <=> (lastTuples[i].el < lastTuples[j].el)

\* The document as it was before any relabelling: no label, nothing hidden.
Bare(t) ==
  [i \in 1..Len(t) |-> [t[i] EXCEPT !.label = "none", !.hidden = FALSE]]

\* C17: the text extracted from a turn after the relabelling equals the
\* text extracted from it before any relabelling.
C17_ExtractionSeesNoArtifacts ==
  ran => \A k \in 1..Len(lastTuples) :
           cloneWithoutInjected(tree, lastTuples[k].el)
             = cloneWithoutInjected(Bare(tree), lastTuples[k].el)

(***************************************************************************)
(* Properties of extractTurns (DedupSpec).                                 *)
(***************************************************************************)

\* The positions the claim removes: a turn with the key of a turn that is
\* consecutive or near-consecutive to it (at most one turn in between).
NearRepeat(turns, j) ==
  \E i \in 1..(j - 1) :
    j - i <= 2 /\ DedupKey(turns[i]) = DedupKey(turns[j])

RECURSIVE KeepNotNearRepeats(_, _)
KeepNotNearRepeats(turns, j) ==
  IF j = 0 THEN <<>>
  ELSE IF NearRepeat(turns, j) THEN KeepNotNearRepeats(turns, j - 1)
  ELSE Append(KeepNotNearRepeats(turns, j - 1), turns[j])

\* C16: the de-duplication removes exactly the near repeats (same role and
\* first 80 characters as a turn at most two positions before), keeps the
\* first of them and keeps the order of the rest.
C16_DedupOnlyNearRepeats ==
  ran => uniq = KeepNotNearRepeats(turnsIn, Len(turnsIn))

(***************************************************************************)
(* Properties of the exporters (ExportSpec).                               *)
(***************************************************************************)

\* The lines of a text.
RECURSIVE SplitLines(_, _)
SplitLines(str, cur) ==
  IF str = <<>> THEN <<cur>>
  ELSE IF Head(str) = Newline THEN <<cur>> \o SplitLines(Tail(str), <<>>)
  ELSE SplitLines(Tail(str), Append(cur, Head(str)))

FrontMatterLines == SplitLines(frontMatter, <<>>)

\* The positions of the lines that begin with a key.
LinesOf(key) ==
  {i \in 1..Len(FrontMatterLines) :
     FrontMatterLines[i] # <<>> /\ FrontMatterLines[i][1] = key}

\* The documented inverse of the escaping, read left to right: an escaped
\* backslash, quote or newline gives the character; a backslash before
\* anything else and a bare quote are not escaped text.
RECURSIVE Unescape(_)
Unescape(str) ==
  IF str = <<>> THEN <<>>
  ELSE IF Head(str) = Backslash
    THEN IF Len(str) >= 2 /\ str[2] \in {Backslash, Quote, "n"}
         THEN <<IF str[2] = "n" THEN Newline ELSE str[2]>>
                \o Unescape(SubSeq(str, 3, Len(str)))
         ELSE <<"invalid">>
  ELSE IF Head(str) = Quote THEN <<"invalid">>
  ELSE <<Head(str)>> \o Unescape(Tail(str))

\* A serialized field read back: the text between its quotes, unescaped.
UnescapeField(value) ==
  IF Len(value) >= 2 /\ value[1] = Quote /\ value[Len(value)] = Quote
  THEN Unescape(SubSeq(value, 2, Len(value) - 1))
  ELSE <<"invalid">>

ExportedAs(fmt) == ran /\ exportFormat = fmt

\* C18: in the markdown_html export the chatTitle line, unescaped by the
\* inverse rule, gives back the title (of ordinary characters, quotes,
\* backslashes and newlines) exactly.
C18_TitleRoundTrips ==
  (ExportedAs("markdown_html") /\ exportMeta.chatTitle # <<>>) =>
    /\ Cardinality(LinesOf("chatTitle")) = 1
    /\ \A i \in LinesOf("chatTitle") :
         UnescapeField(Tail(FrontMatterLines[i])) = exportMeta.chatTitle

\* A title with a double quote, an embedded newline and a backslash has
\* been exported as markdown_html.
C18_Witness ==
  /\ ExportedAs("markdown_html")
  /\ exportMeta.chatTitle = <<Quote, Newline, Backslash>>

\* The keys renderFrontMatter and toYAML write.
MetaFields ==
  {"noteId", "source", "chatId", "chatTitle", "pageUrl", "exportedAt",
   "model", "subject", "topic", "summary", "tags", "autoGenerate",
   "noteMode", "turnCount", "splitHints", "author", "visibility"}

\* A line of the block is one field's line: a key and a value without a
\* bare quote or backslash (with or without surrounding quotes).
FieldLineEscaped(line) ==
  /\ line # <<>>
  /\ line[1] \in MetaFields
  /\ \/ "invalid" \notin {Unescape(Tail(line))[j] :
                            j \in 1..Len(Unescape(Tail(line)))}
     \/ "invalid" \notin {UnescapeField(Tail(line))[j] :
                            j \in 1..Len(UnescapeField(Tail(line)))}

\* C19: in the markdown_pure export every line between the opening '---'
\* and the '---' the renderer writes last is one field's line with its
\* value escaped: no value spills onto a second line or leaves a bare quote
\* or backslash, and no line in between is a '---'.
C19_PureFrontMatterEscaped ==
  ExportedAs("markdown_pure") =>
    LET lines == FrontMatterLines IN
      /\ Len(lines) >= 3
      /\ lines[1] = <<"---">>
      /\ lines[Len(lines) - 1] = <<"---">>
      /\ lines[Len(lines)] = <<>>
      /\ \A i \in 2..(Len(lines) - 2) : FieldLineEscaped(lines[i])

\* The value of a field is defined and non-empty.
Populated(meta, field) ==
  IF field \in {"turnCount", "autoGenerate"} THEN TRUE
  ELSE IF field \in {"tags", "splitHints"} THEN Len(meta[field]) > 0
  ELSE meta[field] # <<>> /\ meta[field] # Null

\* C20: in both formats the front-matter block has a line for a field
\* exactly when the field's value is defined and non-empty.
C20_LineIffPopulated ==
  ran => \A field \in MetaFields :
           (LinesOf(field) # {}) <=> Populated(exportMeta, field)

(***************************************************************************)
(* Properties of the observer and of the pass's writes (Spec, FaultSpec).  *)
(***************************************************************************)

\* Every record of the batch has its target inside the control surface.
AllInsideRoot == nRoot > 0 /\ \A r \in records : InsideRoot(r.target)

\* C27: a batch whose changed nodes all lie inside the control surface is
\* ignored: it schedules no reaction (so no pass and no reclassification
\* follows from it) and leaves the throttle timestamp alone.
C27_InsideBatchIgnored ==
  [][(ObserverCallback /\ AllInsideRoot) =>
       UNCHANGED <<scheduled, pending, sinceObserverRun>>]_vars

\* Such a batch waits for the observer while neither the flag nor the
\* throttle nor an earlier scheduling would stop it.
C27_Witness ==
  /\ records # {}
  /\ AllInsideRoot
  /\ ~observersSuspended
  /\ ~Throttled(sinceObserverRun)
  /\ ~scheduled

\* C28: every DOM write of a reconcile pass is made while
\* observersSuspended is set.
C28_WritesWhileSuspended == \A w \in effects.writes : w.suspended

\* C29: when a reconcile pass has ended, completed or thrown, and control
\* is back at the event loop, observersSuspended is false.
C29_SuspensionReleased == ~observersSuspended

\* A pass has thrown after creating the root and before the controls.
C29_Witness ==
  /\ effects.writes # {}
  /\ nRoot = 1
  /\ nControls = 0
  /\ ~observersSuspended

\* C30: a batch that gets past the throttle check (it resets the timestamp
\* or schedules) comes at least OBSERVER_THROTTLE_MS after the batch that
\* got past it before; a batch arriving sooner schedules nothing.
C30_AcceptedBatchesApart ==
  [][(ObserverCallback /\ (sinceObserverRun' # sinceObserverRun
                           \/ scheduled' # scheduled
                           \/ pending' # pending)) =>
       sinceObserverRun >= OBSERVER_THROTTLE_MS]_vars

\* A batch has just got past the throttle, after the first pass.
C30_Witness ==
  /\ nList = 1
  /\ sinceObserverRun = 0
  /\ scheduled
  /\ pending = "frame"
  /\ dirty

(***************************************************************************)
(* Properties of the persisted preferences across loads (BootSpec).        *)
(***************************************************************************)

\* What a startup would take from storage now: the stored export mode
\* where it can be read and is one of the two known modes, else the hybrid
\* default; the stored flag where it can be read and is '0' or '1', else
\* collapsed.
StoredFormat ==
  IF ~storageThrows /\ lsFormat \in {"markdown_pure", "markdown_html"}
    THEN lsFormat ELSE "markdown_html"

StoredCollapsed ==
  IF ~storageThrows /\ lsCollapsed \in {"0", "1"} THEN lsCollapsed ELSE "1"

\* The startup of the script in the top window takes the export mode from
\* storage, and the root it first creates takes the collapsed flag from
\* storage; what storage would give changes only by the user's choice and
\* so stays over a reload.
StartupReadsStored ==
  /\ initCount'["top"] > initCount["top"] => exportFormat' = StoredFormat
  /\ (nRoot = 0 /\ nRoot' = 1) => collapsed' = StoredCollapsed
  /\ ~TogglePureMd => StoredFormat' = StoredFormat
  /\ ~ToggleCollapse => StoredCollapsed' = StoredCollapsed

\* C25, as stated: the startup reads the stored export mode if it is a
\* known mode and else the default, and the stored collapsed flag if it is
\* '0' or '1' and else collapsed; after the user changes either preference
\* a later startup reads back the value last chosen.
C25_PreferencesReadBack ==
  [][/\ StartupReadsStored
     /\ TogglePureMd => StoredFormat' = exportFormat'
     /\ ToggleCollapse => StoredCollapsed' = collapsed']_vars

\* C25, amended: the same, where the value last chosen is read back by a
\* later startup if localStorage took the write; where it throws, the later
\* startup gets the defaults.
C25_PreferencesReadBackIfStored ==
  [][/\ StartupReadsStored
     /\ (TogglePureMd /\ ~storageThrows) => StoredFormat' = exportFormat'
     /\ (ToggleCollapse /\ ~storageThrows) => StoredCollapsed' = collapsed'
     /\ storageThrows => (StoredFormat' = "markdown_html"
                            /\ StoredCollapsed' = "1")]_vars

\* The first pass of a load has just created the root expanded, in plain
\* export mode: both values were chosen in an earlier load.
C25_Witness ==
  /\ Write("style", FALSE) \in effects.writes
  /\ collapsed = "0"
  /\ exportFormat = "markdown_pure"

(***************************************************************************)
(* Properties of a failing export (FaultSpec).                             *)
(***************************************************************************)

\* The click on Export whose try block raises: in the payload, in the
\* rendering or in the save.
ExportRaised ==
  \/ ClickExport /\ buildSelectedPayload(doc, rows, nRoot).threw
  \/ \E stage \in ExportStages : ClickExportThrows(stage)

\* C23: an exception raised while the payload is built, rendered or saved
\* is caught in the click handler: one failure alert is shown, nothing is
\* saved, and the selection, the buttons, the collapsed flag, the export
\* mode, the suspension flag and the scheduling of the loop are as before
\* the click.
C23_ExportFailureContained ==
  [][ExportRaised =>
       /\ effects'.alert = "failed"
       /\ ~effects'.saved
       /\ UNCHANGED <<rows, allDisabled, noneDisabled, exportDisabled,
                      nRoot, nControls, nList, placeholder, collapsed,
                      exportFormat, lsCollapsed, lsFormat,
                      observersSuspended, scheduled, pending,
                      repairTimer>>]_vars

\* The save has thrown after the link was appended, with a prompt selected
\* and the panel expanded.
C23_Witness ==
  /\ effects.alert = "failed"
  /\ records = {Rec("body", "tool")}
  /\ \E i \in 1..Len(rows) : rows[i].checked
  /\ ~observersSuspended

(***************************************************************************)
(* Properties of the extension's commands (CommandSpec).                   *)
(***************************************************************************)

\* A click on the in-page Export button would save an export now.
ButtonWouldExport ==
  /\ records = {}
  /\ nControls > 0
  /\ ~exportDisabled
  /\ LET payload == buildSelectedPayload(doc, rows, nRoot)
     IN ~payload.threw /\ Len(payload.turns) > 0

\* C24: a trigger sent by the keyboard command or the popup, while the
\* in-page button would export, leads to an export being saved.
C24_CommandExports ==
  (trigger # "none" /\ ButtonWouldExport) ~> effects.saved

(***************************************************************************)
(* Properties of the whole document (RenderSpec).                          *)
(***************************************************************************)

DocLines == SplitLines(rendered, <<>>)

\* The position of the title heading: the first line that starts '# '.
TitleIndex ==
  CHOOSE i \in 1..Len(DocLines) :
    /\ DocLines[i] # <<>> /\ DocLines[i][1] = "# "
    /\ \A j \in 1..(i - 1) : DocLines[j] = <<>> \/ DocLines[j][1] # "# "

\* The lines after the title heading.
BelowTitle == SubSeq(DocLines, TitleIndex + 1, Len(DocLines))

\* A line that is the label of a section.
IsLabelLine(line) ==
  \E r \in {"user", "assistant", "system", "tool"} : line = <<LabelLine(r)>>

\* A line the renderer adds below the title: a meta row, a label line, a
\* rule between two sections or an empty line.
IsMarker(line) ==
  \/ line = <<>>
  \/ line = <<"---">>
  \/ line[1] \in {"Source", "Exported"}
  \/ IsLabelLine(line)

\* The non-empty lines of the turns' texts, in turn order.
RECURSIVE TextLines(_)
TextLines(turns) ==
  IF turns = <<>> THEN <<>>
  ELSE SelectSeq(SplitLines(Head(turns).text, <<>>), LAMBDA l : l # <<>>)
         \o TextLines(Tail(turns))

\* C21: the plain document has exactly one labelled section for each turn,
\* in the turns' order, and what is left of it without front matter,
\* title, meta rows, label lines and rules is the turns' texts in order.
C21_PlainPreservesContent ==
  (ran /\ exportFormat = "markdown_pure") =>
    /\ SelectSeq(BelowTitle, IsLabelLine)
         = [i \in 1..Len(renderIn.turns) |->
              <<LabelLine(renderIn.turns[i].role)>>]
    /\ SelectSeq(BelowTitle, LAMBDA l : ~IsMarker(l))
         = TextLines(renderIn.turns)

\* C22: both formats return a document whatever optional fields are
\* missing, and where neither the title option nor the metadata gives a
\* non-empty title the heading of the plain document is '# Chat Export'.
C22_DefaultTitle ==
  ran =>
    /\ rendered # <<>>
    /\ (exportFormat = "markdown_pure"
          /\ ~Truthy(renderIn.title) /\ ~Truthy(renderIn.chatTitle)) =>
         DocLines[TitleIndex] = <<"# ", "Chat Export">>

\* A line of one of the four volatile fields or a meta row, with its value
\* replaced by a fixed one.
MaskLine(line) ==
  IF line # <<>> /\ line[1] \in {"noteId", "chatId", "pageUrl", "exportedAt",
                                  "Source", "Exported"}
    THEN <<line[1], "masked">>
  ELSE line

Masked(lines) == [i \in 1..Len(lines) |-> MaskLine(lines[i])]

\* The values of the volatile fields.
VolatileTokens == {"n1", "n2", "c1", "c2", "u1", "u2", "t1", "t2"}

\* The plain document of the same title and turns with other volatile
\* values.
WithVolatile(v) ==
  buildMarkdownExport("markdown_pure",
                      RenderMeta([renderIn EXCEPT !.volatile = v]),
                      renderIn.turns, [title |-> renderIn.title])

----------------------------------------------------------------------------
\* The scheduler's coalescing (scheduleEnsure, part_002:844-859).

\* The number of run closures requested and not yet called.
PendingCount == (IF pending = "none" THEN 0 ELSE 1)
                + (IF pending2 = "none" THEN 0 ELSE 1)

\* C31: at most one reaction is pending at any time, an observer callback
\* that arrives while one is pending requests no further one, and a
\* callback of the scheduler that runs a pass consumes exactly the one
\* pending reaction.
C31_Coalesced ==
  /\ [](PendingCount <= 1)
  /\ [][(ObserverCallback /\ PendingCount > 0)
          => <<pending, pending2>>' = <<pending, pending2>>]_vars
  /\ [][((AnimationFrame \/ IdleCallback) /\ effects'.writes # {})
          => PendingCount' = PendingCount - 1]_vars

\* C32: a pending reaction eventually runs, also on a page that never
\* leaves the main thread idle: after its animation frame the run is called
\* in an idle period or when the timeout of the idle request has expired.
C32_PendingRuns == (pending # "none") ~> (pending = "none")

\* The reaction is pending on a busy page and the timeout of its idle
\* request has expired.
C32_Witness ==
  /\ busy
  /\ pending = "due"
  /\ doc # <<>>

----------------------------------------------------------------------------
\* The repair loop (startRepairLoop, part_002:38-50).

\* The page on which the primary path never fires: no animation frame is
\* served, so no scheduled run is ever called, and only the repair
\* interval is left to build the control surface.  A tick may throw.
RepairNext ==
  \/ RepairTick
  \/ \E stage \in PassStages : RepairTickThrows(stage)
  \/ ObserverCallback
  \/ \E r \in Roles : HostAppend(r, MaxLoopTurns)
  \/ HostRemoveFirst
  \/ HostRemoveRoot
  \/ HostRemoveControls
  \/ HostRemoveList
  \/ Tick

RepairSpec ==
  /\ Init /\ [][RepairNext]_vars
  /\ SF_vars(ObserverCallback)
  /\ SF_vars(RepairTick)

SurfacePresent == nRoot > 0 /\ nControls > 0 /\ nList > 0

\* C33: a tick of the repair timer whose pass completes is a reconcile
\* pass and clears the timer exactly if the list is present after it; a
\* tick whose pass throws leaves the timer set; the timer is never set
\* again; and the control surface is eventually created with no help from
\* the scheduled path.
C33_RepairLoop ==
  /\ [][RepairTick => /\ effects'.writes # {}
                      /\ (repairTimer' = "null") = (nList' > 0)]_vars
  /\ [][(\E stage \in PassStages : RepairTickThrows(stage))
          => repairTimer' = "set"]_vars
  /\ [][repairTimer = "null" => repairTimer' = "null"]_vars
  /\ <>SurfacePresent

\* The repair timer has built the surface and stopped, with nothing
\* scheduled ever having run.
C33_Witness ==
  /\ repairTimer = "null"
  /\ SurfacePresent
  /\ pending = "frame"
  /\ doc # <<>>

----------------------------------------------------------------------------
\* Role priority (roleOf in getMessageTuples, part_002:148-159).

\* C34: a turn whose node carries a role marker of its own is given the
\* role the marker names, whichever rule of the classifier it also matches.
C34_MarkerDecides ==
  ran => \A k \in 1..Len(lastTuples) :
           AuthorRole(tree[lastTuples[k].el]) # ""
             => lastTuples[k].role = AuthorRole(tree[lastTuples[k].el])

----------------------------------------------------------------------------
\* Mixed batches (makeObserver, part_002:816-822).

\* The batch holds a record of a change by the host to the transcript and a
\* record whose target lies inside the existing root.
MixedBatch ==
  /\ nRoot > 0
  /\ \E r \in records : InsideRoot(r.target)
  /\ \E r \in records : r.by = "host" /\ ~InsideRoot(r.target)

\* C35: a batch with one record inside the control surface is ignored as a
\* whole, also when another of its records is a change to the transcript:
\* it schedules nothing and leaves the throttle timestamp alone.
C35_MixedBatchIgnored ==
  [][(ObserverCallback /\ MixedBatch) =>
       UNCHANGED <<scheduled, pending, pending2, sinceObserverRun>>]_vars

\* A mixed batch waits for the observer while neither the flag nor the
\* throttle nor an earlier scheduling would stop it.
C35_Witness ==
  /\ MixedBatch
  /\ ~observersSuspended
  /\ ~Throttled(sinceObserverRun)
  /\ ~scheduled

----------------------------------------------------------------------------
\* The list after a pass (ensureFloatingUI, part_002:677-738).

\* C36: a reconcile pass leaves the list with a row for every prompt of the
\* document and none of them checked, whatever was checked before it.
C36_PassClearsSelection ==
  [][PassTaken => /\ Len(rows') = Len(UserIndexes(getMessageTuples(doc)))
                  /\ \A i \in 1..Len(rows') : ~rows'[i].checked]_vars

\* A pass has just rebuilt a list of two rows, and the buttons show that
\* nothing is selected.
C36_Witness ==
  /\ effects.writes # {}
  /\ Len(rows) = 2
  /\ \A i \in 1..Len(rows) : ~rows[i].checked
  /\ exportDisabled

----------------------------------------------------------------------------
\* The collapsed state (setCollapsed, part_002:393-402, and the creation of
\* the root, the controls and the list in ensureFloatingUI).

\* Where the root exists, the list's display and the toggle button's text
\* say what data-collapsed says, for those of the two that exist.
ViewAgrees ==
  nRoot > 0 =>
    /\ collapsed \in {"0", "1"}
    /\ nList > 0 => (listDisplay = "none") = (collapsed = "1")
    /\ nList > 0 => listDisplay # "absent"
    /\ nControls > 0 => (toggleLabel = "Show List") = (collapsed = "1")
    /\ nControls > 0 => toggleLabel # "absent"

\* C37, as stated: where the root exists, data-collapsed, the list's
\* display, the toggle button's text and the value a startup would read
\* from storage all agree.
C37_CollapsedConsistent ==
  /\ ViewAgrees
  /\ nRoot > 0 => StoredCollapsed = collapsed

\* C37, amended: data-collapsed, the list's display and the toggle button's
\* text always agree, and the stored value agrees with them where
\* localStorage can be reached.
C37_CollapsedConsistentIfStored ==
  /\ ViewAgrees
  /\ (nRoot > 0 /\ ~storageThrows) => lsCollapsed = collapsed

\* The surface is complete and expanded, which takes a click on the toggle
\* button, and the stored value says so.
C37_Witness ==
  /\ nRoot > 0 /\ nControls > 0 /\ nList > 0
  /\ collapsed = "0"
  /\ lsCollapsed = "0"
  /\ listDisplay = "block"
  /\ toggleLabel = "Hide List"

----------------------------------------------------------------------------
\* The rows and the turns they stand for (list population at
\* part_002:677-707, buildSelectedPayload at 197-214).

\* The turn elements the checked rows were rendered from, as places in the
\* document of now.
CheckedElements ==
  {rows[i].el : i \in {j \in 1..Len(rows) : rows[j].checked}}

\* C38: an export that saves a file starts its ranges at the turns the
\* checked rows were rendered from, and at no other.
C38_ExportsCheckedTurns == effects.saved => ValidSelection = CheckedElements

----------------------------------------------------------------------------
\* The scheduler after a pass that throws (scheduleEnsure, part_002:844-859;
\* startRepairLoop, 38-50).

\* A pass has thrown, scheduled by the observer or started by the repair
\* timer.
PassFailed ==
  \/ \E stage \in PassStages : RunThrows(stage)
  \/ \E stage \in PassStages : RepairTickThrows(stage)

\* C39: the flag scheduled is set only while a requested callback is
\* outstanding, also after passes that threw; a scheduled run that throws
\* leaves the flag cleared and a repair tick that throws leaves the scheduler
\* as it was; and the first batch the observer accepts after a failed pass
\* schedules a reaction.
C39_NotWedged ==
  /\ [](scheduled => PendingCount > 0)
  /\ [][(\E stage \in PassStages : RunThrows(stage)) => ~scheduled']_vars
  /\ [][(\E stage \in PassStages : RepairTickThrows(stage))
          => UNCHANGED <<scheduled, pending, pending2>>]_vars
  /\ [][(ObserverCallback /\ ObserverReacts)
          => (scheduled' /\ PendingCount' > 0)]_vars

\* A scheduled run has just thrown between the root and the controls (the
\* repair timer had stopped before), and nothing is scheduled.
C39_Witness ==
  /\ effects.writes # {}
  /\ nRoot = 1
  /\ nControls = 0
  /\ repairTimer = "null"
  /\ ~scheduled
  /\ pending = "none"

=============================================================================
